---- MODULE Spec2Model ----
(***************************************************************************)
(* PacketScope capture-to-storage pipeline.                                *)
(*                                                                         *)
(*   PacketCapture -> rawPacketQueue_ -> dispatcher -> ThreadPool          *)
(*                 -> PacketProcessor -> PacketStore                       *)
(*                                                                         *)
(* Every thread of the program has a program counter pc[t]; a call of a    *)
(* ThreadPool, ThreadSafeQueue or PacketStore method saves the label to    *)
(* continue at in ret[t].  Four specifications share the state and the     *)
(* method actions:                                                         *)
(*   Spec       PipelineController driven by caller threads, with the      *)
(*              capture thread, the dispatcher and the pool's workers;     *)
(*   PoolSpec   one ThreadPool used directly by client threads;            *)
(*   StoreSpec  one PacketStore used directly by client threads;           *)
(*   EquivSpec  Spec with one caller that may also run the script          *)
(*              stop(); getStore()->clear(); start(device).                *)
(***************************************************************************)
EXTENDS Integers, Sequences, FiniteSets, TLC

\* PipelineController::kWorkerCount
kWorkerCount == 2

\* frames the capture source delivers in one behaviour
MaxFrames == 2
\* start()/stop()/restart() calls in one behaviour
MaxCalls == 3
\* submit() calls made by pool clients in one behaviour
MaxTasks == 2
\* records the store holds before clients stop adding
MaxStore == 2

VARIABLES
    pc,                     \* thread -> label of its next step
    ret,                    \* thread -> label the method it is in returns to
    local,                  \* thread -> the frame / task / record it holds
    result,                 \* thread -> what its last store read returned
    op,                     \* caller or client -> the call it made last
    arg,                    \* caller -> deviceName of its start()
    retval,                 \* caller -> what its last call returned
    script,                 \* caller -> calls it still has to make in order
    controlMutex_,          \* PipelineController: owner of the control lock
    isRunning_,             \* PipelineController
    currentDeviceName_,     \* PipelineController
    threadPool_,            \* PipelineController: identity of the pool object
    rawPacketQueue_,        \* PipelineController: ThreadSafeQueue<optional<Raw>>
    stopped_,               \* ThreadPool
    tasks_,                 \* ThreadPool: ThreadSafeQueue<function<void()>>
    sdI,                    \* thread -> loop index i of its shutdown()
    capture_isRunning_,     \* PacketCapture::isRunning_
    device_,                \* PacketCapture
    callback_,              \* PacketCapture
    capturedPacketCount_,   \* PacketCapture
    parsedPackets_,         \* PacketStore
    id_,                    \* PacketStore
    mutexOwner,             \* PacketStore::mutex_ : exclusive owner
    mutexShared,            \* PacketStore::mutex_ : shared owners
    nCalls,                 \* history: lifecycle calls made so far
    nSubmitted,             \* history: tasks handed to submit() by clients
    baseCount,              \* history: capturedPacketCount_ at the last clear()
    accepted,               \* history: tasks whose submit() read stopped_ false
    dispatched,             \* history: frames the dispatcher passed to submit()
    nPushed,                \* history: push() calls made on the queue
    popped,                 \* history: elements pop() and tryPop() returned
    queuedBefore,           \* history: tasks pushed while stopped_ was false
    invoked,                \* history: tasks a worker has called
    threw,                  \* history: tasks that threw in a worker
    delivered,              \* history: per delivered frame, whether it is bad
    everStarted,            \* history: some start() has returned true
    atStop,                 \* history: the records held when stop() last
                            \*          returned, none once the store is cleared
    late,                   \* history: tasks whose submit() began with stopped_
    sentinels,              \* history: sentinels pushed by shutdown()
    idleStop,               \* history: the last stop() found the pipeline
                            \*          Stopped
    cachedRowCount_,        \* PacketListModel: rows the table shows
    updateTimer_,           \* MainWindow: the refresh timer is active
    window                  \* MainWindow: device, buttons, screen, and the
                            \*             handler the UI thread is in

vars == <<pc, ret, local, result, op, arg, retval, script, controlMutex_,
          isRunning_, currentDeviceName_, threadPool_, rawPacketQueue_,
          stopped_, tasks_, sdI, capture_isRunning_, device_, callback_,
          capturedPacketCount_, parsedPackets_, id_, mutexOwner, mutexShared,
          nCalls, nSubmitted, baseCount, accepted,
          dispatched, nPushed, popped, queuedBefore, invoked,
          threw, delivered, everStarted, atStop, late, sentinels,
          idleStop, cachedRowCount_, updateTimer_, window>>

ctlVars == <<controlMutex_, isRunning_, currentDeviceName_, threadPool_>>
capVars == <<capture_isRunning_, device_, callback_, capturedPacketCount_>>
poolVars == <<stopped_, tasks_, sdI>>
storeVars == <<parsedPackets_, id_, mutexOwner, mutexShared, baseCount>>
callVars == <<op, arg, retval, script, nCalls>>
noteVars == <<everStarted, atStop, late, sentinels, idleStop>>
uiVars == <<cachedRowCount_, updateTimer_, window>>
histVars == <<nSubmitted, accepted,
              dispatched, nPushed, popped, queuedBefore, invoked, threw,
              delivered,
              noteVars>>

----------------------------------------------------------------------------
\* Threads

W(i) == <<"w", i>>
\* ThreadPool(threadCount): count = max(threadCount, 1)
WorkerCount(threadCount) == IF threadCount > 1 THEN threadCount ELSE 1
Workers == {W(i) : i \in 1..WorkerCount(kWorkerCount)}
D == <<"d", 0>>
Callers == {<<"u", 1>>, <<"u", 2>>}
Clients == {<<"c", 1>>, <<"c", 2>>}
Threads == Workers \cup {D} \cup Callers \cup Clients
NoThread == <<"none", 0>>

\* Devices PcapLiveDeviceList knows, and a name it does not know
Devices == {"eth0", "wlan0"}
UnknownDevice == "nodev"
NoDevice == ""

\* What open() and startCapture() of the device answer
Outcomes == {"ok", "open_fail", "start_fail"}

\* MainWindow after its constructor: the welcome screen, no device chosen,
\* the three toolbar actions disabled, the UI thread in no handler
NoWindow == [handler |-> "none", at |-> 0, currentDeviceName_ |-> "",
             hasDevice_ |-> FALSE, screen |-> "welcome",
             startAction_ |-> FALSE, stopAction_ |-> FALSE,
             restartAction_ |-> FALSE]

\* Values
NoItem == [n |-> 0, bad |-> FALSE, id |-> 0]
NoResult == [kind |-> "none", val |-> 0, pkts |-> <<>>]
Nullopt == [some |-> FALSE, n |-> 0, bad |-> FALSE]
Some(f) == [some |-> TRUE, n |-> f.n, bad |-> f.bad]
EmptyFunction == [empty |-> TRUE, n |-> 0, bad |-> FALSE]
\* a callable without a target (an empty std::function, a null function
\* pointer): the callables that have one are numbered from 1
NullCallable == [n |-> 0, bad |-> FALSE, id |-> 0]
\* std::function<void()>(task): empty exactly when the callable has no target
Task(f) == [empty |-> f.n = NullCallable.n, n |-> f.n, bad |-> f.bad]

Goto(t, l) == pc' = [pc EXCEPT ![t] = l]
Return(t) == pc' = [pc EXCEPT ![t] = ret[t]]
Call(t, l, back) == /\ pc' = [pc EXCEPT ![t] = l]
                    /\ ret' = [ret EXCEPT ![t] = back]

Init ==
    /\ pc = [t \in Threads |->
                IF t \in Workers THEN "w_pop"
                ELSE IF t = D THEN "d_none" ELSE "idle"]
    /\ ret = [t \in Threads |-> "idle"]
    /\ local = [t \in Threads |-> NoItem]
    /\ result = [t \in Threads |-> NoResult]
    /\ op = [t \in Callers \cup Clients |-> "none"]
    /\ arg = [t \in Callers |-> NoDevice]
    /\ retval = [t \in Callers |-> "none"]
    /\ script = [t \in Callers |-> <<>>]
    /\ controlMutex_ = NoThread
    /\ isRunning_ = FALSE
    /\ currentDeviceName_ = NoDevice
    /\ threadPool_ = 1
    /\ rawPacketQueue_ = <<>>
    /\ stopped_ = FALSE
    /\ tasks_ = <<>>
    /\ sdI = [t \in Threads |-> 0]
    /\ capture_isRunning_ = FALSE
    /\ device_ = NoDevice
    /\ callback_ = "unset"
    /\ capturedPacketCount_ = 0
    /\ parsedPackets_ = <<>>
    /\ id_ = 0
    /\ mutexOwner = NoThread
    /\ mutexShared = {}
    /\ nCalls = 0
    /\ nSubmitted = 0
    /\ baseCount = 0
    /\ accepted = {}
    /\ dispatched = <<>>
    /\ nPushed = 0
    /\ popped = <<>>
    /\ queuedBefore = {}
    /\ invoked = {}
    /\ threw = {}
    /\ delivered = <<>>
    /\ everStarted = FALSE
    /\ atStop = <<>>
    /\ late = {}
    /\ sentinels = 0
    /\ idleStop = FALSE
    /\ cachedRowCount_ = 0
    /\ updateTimer_ = FALSE
    /\ window = NoWindow

----------------------------------------------------------------------------
\* ThreadSafeQueue<T>

\* a push that puts the value at the front
push_Front(q, value) == <<value>> \o q

\* push(value): append under the lock, then notify_one
push(q, value) == Append(q, value)

\* pop() blocks in cv_.wait until !queue_.empty()
CanPop(q) == q /= <<>>

\* tryPop(): nullopt when the queue is empty, else the front
tryPop(q) == IF q = <<>> THEN [has |-> FALSE, rest |-> q]
             ELSE [has |-> TRUE, rest |-> Tail(q)]

\* size()
size(q) == Len(q)

\* clear() of the ingest queue, called by restart()
clear(q) == <<>>

----------------------------------------------------------------------------
\* PacketCapture

getDeviceByName(deviceName) ==
    IF deviceName \in Devices THEN deviceName ELSE NoDevice

\* PacketCapture::start: the capture state it leaves and what it returns
PacketCapture_start(deviceName, callback, oc) ==
    LET same == [ok |-> FALSE, running |-> capture_isRunning_,
                 device |-> device_, callback |-> callback_]
        dev == getDeviceByName(deviceName)
    IN  IF callback = "unset" THEN same
        ELSE IF capture_isRunning_ THEN same
        ELSE IF dev = NoDevice THEN [same EXCEPT !.device = dev]
        ELSE IF oc = "open_fail" THEN [same EXCEPT !.device = dev]
        ELSE IF oc = "start_fail"
             THEN [same EXCEPT !.device = dev, !.callback = callback]
        ELSE [ok |-> TRUE, running |-> TRUE, device |-> dev,
              callback |-> callback]

\* PacketCapture::stop: stopCapture() joins the capture thread
PacketCapture_stop ==
    IF ~capture_isRunning_
    THEN UNCHANGED <<capture_isRunning_, device_>>
    ELSE /\ device_' = NoDevice
         /\ capture_isRunning_' = FALSE

\* an arrival that is not counted
CountAfterArrival_Uncounted(c) == c

\* self->capturedPacketCount_++
CountAfterArrival(c) == c + 1

\* PacketCapture::onPacketArrives on the capture thread, which runs from
\* startCapture() to stopCapture(): count the frame and hand it to the
\* callback registered by PipelineController (push onto rawPacketQueue_)
OnPacketArrives(bad) ==
    /\ capture_isRunning_
    /\ capturedPacketCount_ < MaxFrames
    /\ IF callback_ = "unset"
       THEN UNCHANGED <<capturedPacketCount_, rawPacketQueue_, delivered>>
       ELSE /\ capturedPacketCount_' = CountAfterArrival(capturedPacketCount_)
            /\ delivered' = Append(delivered, bad)
            /\ rawPacketQueue_' =
                 push(rawPacketQueue_,
                      Some([n |-> capturedPacketCount_ + 1, bad |-> bad]))
    /\ UNCHANGED <<pc, ret, local, result, callVars, ctlVars, poolVars,
                   capture_isRunning_, device_, callback_, storeVars,
                   nSubmitted, accepted, uiVars,
                   dispatched, nPushed, popped, queuedBefore, invoked, threw,
                   noteVars>>

----------------------------------------------------------------------------
\* ThreadPool

\* isStopped(): the stopped state the pool exposes
isStopped == stopped_

\* ThreadPool(kWorkerCount): a new object, workers_ started, tasks_ empty
NewThreadPool ==
    /\ threadPool_' = threadPool_ + 1
    /\ stopped_' = FALSE
    /\ tasks_' = <<>>

WorkersStarted(p) == [t \in Threads |-> IF t \in Workers THEN "w_pop" ELSE p[t]]

\* submit() that pushes whatever stopped_ says
Submit_Accepts_Always == TRUE

\* submit(task): if (!stopped_) ...
Submit_Accepts == ~stopped_

Submit_Check(t) ==
    /\ pc[t] = "sub_check"
    /\ IF Submit_Accepts
       THEN /\ Goto(t, "sub_push")
            /\ accepted' = accepted \cup {local[t].n}
            /\ UNCHANGED local
       ELSE /\ Return(t)
            /\ local' = [local EXCEPT ![t] = NoItem]
            /\ UNCHANGED accepted
    /\ dispatched' = IF t = D THEN Append(dispatched, local[t].n)
                   ELSE dispatched
    /\ UNCHANGED <<ret, result, callVars, ctlVars, rawPacketQueue_, poolVars,
                   capVars, storeVars, nSubmitted, nPushed, popped,
                   queuedBefore, invoked, threw, delivered, noteVars,
                   uiVars>>

\* ... tasks_.push(std::function<void()>(task))
Submit_Push(t) ==
    /\ pc[t] = "sub_push"
    /\ tasks_' = push(tasks_, Task(local[t]))
    /\ queuedBefore' = IF stopped_ THEN queuedBefore
                       ELSE queuedBefore \cup {local[t].n}
    /\ local' = [local EXCEPT ![t] = NoItem]
    /\ Return(t)
    /\ UNCHANGED <<ret, result, callVars, ctlVars, rawPacketQueue_, stopped_,
                   sdI, capVars, storeVars, nSubmitted, accepted, uiVars,
                   dispatched, nPushed, popped, invoked,
                   threw, delivered, noteVars>>

\* shutdown() that does not look at what exchange() returned
AlreadyShutDown_Unchecked == FALSE

\* what stopped_.exchange(true) returns: the pool was shut down before
AlreadyShutDown == stopped_

\* shutdown(): if (stopped_.exchange(true)) return;
Shutdown_Exchange(t) ==
    /\ pc[t] = "sd_xchg"
    /\ stopped_' = TRUE
    /\ IF AlreadyShutDown
       THEN Return(t) /\ UNCHANGED sdI
       ELSE Goto(t, "sd_pills") /\ sdI' = [sdI EXCEPT ![t] = 0]
    /\ UNCHANGED <<ret, local, result, callVars, ctlVars, rawPacketQueue_,
                   tasks_, capVars, storeVars, histVars, uiVars>>

\* a shutdown() that pushes one sentinel too few
SentinelsToPush_OneShort == Cardinality(Workers) - 1

\* workers_.size()
SentinelsToPush == Cardinality(Workers)

\* for (i = 0; i < workers_.size(); ++i) tasks_.push(std::function<void()>{})
Shutdown_Pill(t) ==
    /\ pc[t] = "sd_pills"
    /\ IF sdI[t] < SentinelsToPush
       THEN /\ tasks_' = push(tasks_, EmptyFunction)
            /\ sdI' = [sdI EXCEPT ![t] = sdI[t] + 1]
            /\ sentinels' = sentinels + 1
            /\ UNCHANGED pc
       ELSE /\ Goto(t, "sd_join")
            /\ UNCHANGED <<tasks_, sdI, sentinels>>
    /\ UNCHANGED <<ret, local, result, callVars, ctlVars, rawPacketQueue_,
                   stopped_, capVars, storeVars, nSubmitted, accepted, uiVars,
                   dispatched, nPushed, popped,
                   queuedBefore, invoked, threw, delivered, everStarted,
                   atStop, late, idleStop>>

\* a joinAll() that does not wait for the worker
WorkerJoined_NoWait(w) == TRUE

\* worker.join() returns once the worker's thread function has returned
WorkerJoined(w) == pc[w] \in {"w_exited", "w_joined"}

\* joinAll(): join every joinable worker
Shutdown_JoinAll(t) ==
    /\ pc[t] = "sd_join"
    /\ \A w \in Workers : WorkerJoined(w)
    /\ pc' = [x \in Threads |->
                IF x \in Workers THEN "w_joined"
                ELSE IF x = t THEN ret[t] ELSE pc[x]]
    /\ sdI' = [sdI EXCEPT ![t] = 0]
    /\ UNCHANGED <<ret, local, result, callVars, ctlVars, rawPacketQueue_,
                   stopped_, tasks_, capVars, storeVars, histVars, uiVars>>

\* workerLoop(): task = tasks_.pop(); if (!task) return;
Worker_Pop(w) ==
    /\ pc[w] = "w_pop"
    /\ CanPop(tasks_)
    /\ tasks_' = Tail(tasks_)
    /\ IF Head(tasks_).empty
       THEN Goto(w, "w_exited") /\ UNCHANGED local
       ELSE /\ Goto(w, "w_run")
            /\ local' = [local EXCEPT ![w] =
                           [n |-> Head(tasks_).n, bad |-> Head(tasks_).bad,
                            id |-> 0]]
    /\ UNCHANGED <<ret, result, callVars, ctlVars, rawPacketQueue_, stopped_,
                   sdI, capVars, storeVars, histVars, uiVars>>

\* workerLoop() without its catch clauses: the exception leaves the thread
AfterThrow_Uncaught == "w_exited"

\* where a worker continues after its task threw: the catch clauses of
\* workerLoop() swallow the exception and the loop goes on
AfterThrow == "w_pop"

\* PacketProcessor::process fails on this frame
ProcessThrows(raw) == raw.bad

\* try { task(); } catch ... : the task is the dispatcher's lambda,
\* parsedPacket = process(raw); packetStore_->addPacket(parsedPacket)
Worker_Run(w) ==
    /\ pc[w] = "w_run"
    /\ invoked' = invoked \cup {local[w].n}
    /\ IF ProcessThrows(local[w])
       THEN /\ Goto(w, AfterThrow)
            /\ local' = [local EXCEPT ![w] = NoItem]
            /\ threw' = threw \cup {local[w].n}
            /\ UNCHANGED ret
       ELSE /\ Call(w, "add_lock", "w_pop")
            /\ UNCHANGED <<local, threw>>
    /\ UNCHANGED <<result, callVars, ctlVars, rawPacketQueue_, poolVars,
                   capVars, storeVars, nSubmitted, accepted, uiVars,
                   dispatched, nPushed, popped, queuedBefore,
                   delivered, noteVars>>

----------------------------------------------------------------------------
\* PacketStore  (mutex_ is a std::shared_mutex)

\* std::unique_lock lock(mutex_) goes on once nobody holds mutex_
CanLockExclusive == mutexOwner = NoThread /\ mutexShared = {}

\* a shared_lock that never waits
CanLockShared_Always == TRUE

\* std::shared_lock lock(mutex_) goes on once no writer holds mutex_
CanLockShared == mutexOwner = NoThread

\* addPacket: std::unique_lock lock(mutex_)
Add_Lock(t) ==
    /\ pc[t] = "add_lock"
    /\ CanLockExclusive
    /\ mutexOwner' = t
    /\ Goto(t, "add_id")
    /\ UNCHANGED <<ret, local, result, callVars, ctlVars, rawPacketQueue_,
                   poolVars, capVars, parsedPackets_, id_, mutexShared,
                   baseCount, histVars, uiVars>>

\* id_++ in place of ++id_
NextId_PostIncrement == id_

\* ++id_
NextId == id_ + 1

\* parsedPacket.id = ++id_
Add_Id(t) ==
    /\ pc[t] = "add_id"
    /\ id_' = id_ + 1
    /\ local' = [local EXCEPT ![t].id = NextId]
    /\ Goto(t, "add_push")
    /\ UNCHANGED <<ret, result, callVars, ctlVars, rawPacketQueue_, poolVars,
                   capVars, parsedPackets_, mutexOwner, mutexShared, baseCount,
                   histVars, uiVars>>

\* parsedPackets_.push_back(parsedPacket); the lock is released on return
Add_Push(t) ==
    /\ pc[t] = "add_push"
    /\ parsedPackets_' =
         Append(parsedPackets_, [id |-> local[t].id, n |-> local[t].n])
    /\ mutexOwner' = NoThread
    /\ local' = [local EXCEPT ![t] = NoItem]
    /\ Return(t)
    /\ UNCHANGED <<ret, result, callVars, ctlVars, rawPacketQueue_, poolVars,
                   capVars, id_, mutexShared, baseCount, histVars, uiVars>>

\* clear: std::unique_lock lock(mutex_)
Clear_Lock(t) ==
    /\ pc[t] = "clr_lock"
    /\ CanLockExclusive
    /\ mutexOwner' = t
    /\ Goto(t, "clr_swap")
    /\ UNCHANGED <<ret, local, result, callVars, ctlVars, rawPacketQueue_,
                   poolVars, capVars, parsedPackets_, id_, mutexShared,
                   baseCount, histVars, uiVars>>

\* clear() that drops the lock between the swap and the counter's reset
OwnerAfterSwap_Released(t) == NoThread

\* the owner of mutex_ once clear() has swapped the vector away
OwnerAfterSwap(t) == t

\* std::vector<ParsedPacket>().swap(parsedPackets_)
Clear_Swap(t) ==
    /\ pc[t] = "clr_swap"
    /\ parsedPackets_' = <<>>
    /\ mutexOwner' = OwnerAfterSwap(t)
    /\ atStop' = <<>>
    /\ Goto(t, "clr_id")
    /\ UNCHANGED <<ret, local, result, callVars, ctlVars, rawPacketQueue_,
                   poolVars, capVars, id_, mutexShared, baseCount, nSubmitted,
                   accepted, uiVars,
                   dispatched, nPushed, popped, queuedBefore, invoked, threw,
              delivered,
                   everStarted, late, sentinels, idleStop>>

\* id_ = 0; the lock is released on return
Clear_Id(t) ==
    /\ pc[t] = "clr_id"
    /\ id_' = 0
    /\ mutexOwner' = IF mutexOwner = t THEN NoThread ELSE mutexOwner
    /\ baseCount' = capturedPacketCount_
    /\ Return(t)
    /\ UNCHANGED <<ret, local, result, callVars, ctlVars, rawPacketQueue_,
                   poolVars, capVars, parsedPackets_, mutexShared, histVars, uiVars>>

\* count / getById / getAllPackets: std::shared_lock lock(mutex_)
Read_Lock(t) ==
    /\ pc[t] \in {"cnt_lock", "get_lock", "all_lock"}
    /\ CanLockShared
    /\ mutexShared' = mutexShared \cup {t}
    /\ Goto(t, CASE pc[t] = "cnt_lock" -> "cnt_read"
                 [] pc[t] = "get_lock" -> "get_read"
                 [] OTHER -> "all_read")
    /\ UNCHANGED <<ret, local, result, callVars, ctlVars, rawPacketQueue_,
                   poolVars, capVars, parsedPackets_, id_, mutexOwner,
                   baseCount, histVars, uiVars>>

\* return parsedPackets_.size()
count == Len(parsedPackets_)

Count_Read(t) ==
    /\ pc[t] = "cnt_read"
    /\ result' = [result EXCEPT ![t] =
                    [kind |-> "count", val |-> count, pkts |-> <<>>]]
    /\ mutexShared' = mutexShared \ {t}
    /\ Return(t)
    /\ UNCHANGED <<ret, local, callVars, ctlVars, rawPacketQueue_, poolVars,
                   capVars, parsedPackets_, id_, mutexOwner, baseCount,
                   histVars, uiVars>>

\* static_cast<std::size_t>(x): a negative int wraps to the top of the
\* range; the modulus stands for 2^64, far above any vector size
static_cast_size_t(x) == IF x < 0 THEN x + 2^30 ELSE x

\* the width of int, scaled down; IntMax stays above any size of the store
IntBits == 5
IntMin == -(2^(IntBits - 1))
IntMax == 2^(IntBits - 1) - 1

\* id - 1 in int: at INT_MIN the subtraction overflows, which is undefined;
\* it either wraps to INT_MAX or is carried out in the wider register of
\* the conversion that follows
Decrement(id) == IF id = IntMin THEN {IntMax, IntMin - 1} ELSE {id - 1}

\* vector::at that hands out the last record for an index past the end
at_Clamped(idx) ==
    IF parsedPackets_ = <<>>
    THEN [kind |-> "out_of_range", val |-> 0, pkts |-> <<>>]
    ELSE [kind |-> "packet", val |-> 0,
          pkts |-> <<parsedPackets_[IF idx < Len(parsedPackets_)
                                    THEN idx + 1
                                    ELSE Len(parsedPackets_)]>>]

\* parsedPackets_.at(idx): throws std::out_of_range unless idx < size()
at(idx) ==
    IF idx < Len(parsedPackets_)
    THEN [kind |-> "packet", val |-> 0, pkts |-> <<parsedPackets_[idx + 1]>>]
    ELSE [kind |-> "out_of_range", val |-> 0, pkts |-> <<>>]

\* parsedPackets_.at(static_cast<std::size_t>(id - 1)): what the call may
\* return or throw
getById(id) ==
    {[at(static_cast_size_t(d)) EXCEPT !.val = id] : d \in Decrement(id)}

Get_Read(t) ==
    /\ pc[t] = "get_read"
    /\ \E r \in getById(local[t].id) : result' = [result EXCEPT ![t] = r]
    /\ local' = [local EXCEPT ![t] = NoItem]
    /\ mutexShared' = mutexShared \ {t}
    /\ Return(t)
    /\ UNCHANGED <<ret, callVars, ctlVars, rawPacketQueue_, poolVars,
                   capVars, parsedPackets_, id_, mutexOwner, baseCount,
                   histVars, uiVars>>

\* return parsedPackets_  (a copy)
getAllPackets == [kind |-> "all", val |-> 0, pkts |-> parsedPackets_]

All_Read(t) ==
    /\ pc[t] = "all_read"
    /\ result' = [result EXCEPT ![t] = getAllPackets]
    /\ mutexShared' = mutexShared \ {t}
    /\ Return(t)
    /\ UNCHANGED <<ret, local, callVars, ctlVars, rawPacketQueue_, poolVars,
                   capVars, parsedPackets_, id_, mutexOwner, baseCount,
                   histVars, uiVars>>

----------------------------------------------------------------------------
\* PipelineController

\* A caller makes its next call: any call while it follows no script,
\* else the call its script names next
CallBegins(u, name) ==
    /\ pc[u] = "idle"
    /\ op' = [op EXCEPT ![u] = name]
    /\ IF script[u] = <<>>
       THEN /\ nCalls < MaxCalls
            /\ nCalls' = nCalls + 1
            /\ UNCHANGED script
       ELSE /\ Head(script[u]) = name
            /\ script' = [script EXCEPT ![u] = Tail(script[u])]
            /\ UNCHANGED nCalls

\* the device names a caller passes to start()
StartArgs(u) == IF script[u] = <<>> THEN Devices \cup {UnknownDevice}
                ELSE {currentDeviceName_}

\* lifecycle calls that take no lock
CanLockControl_NoMutex == TRUE

\* std::lock_guard<std::mutex> lock(controlMutex_) at the top of start(),
\* stop() and restart(): the call goes on once no other call holds the lock
CanLockControl == controlMutex_ = NoThread

\* start(): if (isRunning_) return false
AlreadyRunning == isRunning_

\* start() that keeps the pool it has
MustRecreatePool_Never == FALSE

\* start() that builds a new pool on every call
MustRecreatePool_Always == TRUE

\* start(): if (threadPool_->isStopped()) threadPool_ = make_unique<ThreadPool>
MustRecreatePool == isStopped

\* start() that remembers the device name before its checks
DeviceAfterStart_Early(d, started) == d

\* start() that never remembers the device name
DeviceAfterStart_Never(d, started) == currentDeviceName_

\* currentDeviceName_ = deviceName comes after the capture has started:
\* the name start() leaves remembered
DeviceAfterStart(d, started) == IF started THEN d ELSE currentDeviceName_

\* dispatcherThread_ = std::thread(...): assigning to a joinable thread
\* terminates the program
Spawned(p) == [p EXCEPT ![D] = IF p[D] = "d_none" THEN "d_pop"
                               ELSE "d_terminate"]

\* start(deviceName) up to the dispatcher thread's creation, under
\* controlMutex_: the running check, the pool's recreation, the capture's
\* start and the device name remembered
Start(u, d, oc) ==
    /\ CallBegins(u, "start")
    /\ CanLockControl
    /\ arg' = [arg EXCEPT ![u] = d]
    /\ IF AlreadyRunning
       THEN /\ retval' = [retval EXCEPT ![u] = "false"]
            /\ currentDeviceName_' = DeviceAfterStart(d, FALSE)
            /\ UNCHANGED <<pc, controlMutex_, isRunning_, threadPool_,
                           stopped_, tasks_, capVars>>
       ELSE LET r == PacketCapture_start(d, "push", oc)
                p == IF MustRecreatePool THEN WorkersStarted(pc) ELSE pc
            IN  /\ IF MustRecreatePool
                   THEN NewThreadPool
                   ELSE UNCHANGED <<threadPool_, stopped_, tasks_>>
                /\ capture_isRunning_' = r.running
                /\ device_' = r.device
                /\ callback_' = r.callback
                /\ UNCHANGED <<capturedPacketCount_, isRunning_>>
                /\ currentDeviceName_' = DeviceAfterStart(d, r.ok)
                /\ IF r.ok
                   THEN /\ controlMutex_' = u
                        /\ pc' = [p EXCEPT ![u] = "start_spawn"]
                        /\ retval' = [retval EXCEPT ![u] = "none"]
                   ELSE /\ pc' = p
                        /\ retval' = [retval EXCEPT ![u] = "false"]
                        /\ UNCHANGED controlMutex_
    /\ UNCHANGED <<ret, local, result, rawPacketQueue_, sdI, storeVars,
                   histVars, uiVars>>

\* dispatcherThread_ = std::thread([this] { ... })
SpawnDispatcher(u, from, to) ==
    /\ pc[u] = from
    /\ pc' = [Spawned(pc) EXCEPT ![u] = to]
    /\ UNCHANGED <<ret, local, result, callVars, ctlVars, rawPacketQueue_,
                   poolVars, capVars, storeVars, histVars, uiVars>>

\* isRunning_ = true; return true
SetRunning(u, from) ==
    /\ pc[u] = from
    /\ isRunning_' = TRUE
    /\ controlMutex_' = NoThread
    /\ retval' = [retval EXCEPT ![u] = "true"]
    /\ everStarted' = (everStarted \/ from = "start_run")
    /\ Goto(u, "idle")
    /\ UNCHANGED <<ret, local, result, op, arg, script, nCalls,
                   currentDeviceName_, threadPool_, rawPacketQueue_, poolVars,
                   capVars, storeVars, nSubmitted, accepted, uiVars,
                   dispatched, nPushed, popped, queuedBefore,
                   invoked, threw, delivered, atStop, late, sentinels,
                   idleStop>>

Start_Spawn(u) == SpawnDispatcher(u, "start_spawn", "start_run")
Start_Run(u) == SetRunning(u, "start_run")

\* the dispatcher thread: rawPacket = rawPacketQueue_.pop();
\* if (!rawPacket) break; threadPool_->submit(...)
Dispatcher_Pop ==
    /\ pc[D] = "d_pop"
    /\ CanPop(rawPacketQueue_)
    /\ rawPacketQueue_' = Tail(rawPacketQueue_)
    /\ IF ~Head(rawPacketQueue_).some
       THEN Goto(D, "d_done") /\ UNCHANGED <<ret, local>>
       ELSE /\ Call(D, "sub_check", "d_pop")
            /\ local' = [local EXCEPT ![D] =
                           [n |-> Head(rawPacketQueue_).n,
                            bad |-> Head(rawPacketQueue_).bad, id |-> 0]]
    /\ UNCHANGED <<result, callVars, ctlVars, poolVars, capVars, storeVars,
                   histVars, uiVars>>

\* packetCapture_->stop()
StopCapture(u, from, to) ==
    /\ pc[u] = from
    /\ PacketCapture_stop
    /\ Goto(u, to)
    /\ UNCHANGED <<ret, local, result, callVars, ctlVars, rawPacketQueue_,
                   poolVars, callback_, capturedPacketCount_, storeVars,
                   histVars, uiVars>>

\* rawPacketQueue_.push(std::nullopt)
PushPoisonPill(u, from, to) ==
    /\ pc[u] = from
    /\ rawPacketQueue_' = push(rawPacketQueue_, Nullopt)
    /\ Goto(u, to)
    /\ UNCHANGED <<ret, local, result, callVars, ctlVars, poolVars, capVars,
                   storeVars, histVars, uiVars>>

\* stop() that does not wait for the dispatcher
DispatcherJoined_NoWait == TRUE

\* dispatcherThread_.join() returns once the thread function has returned;
\* a thread that is not joinable is not joined
DispatcherJoined == pc[D] \in {"d_none", "d_done"}

\* if (dispatcherThread_.joinable()) dispatcherThread_.join();
\* threadPool_->shutdown()
JoinDispatcher(u, from, back) ==
    /\ pc[u] = from
    /\ DispatcherJoined
    /\ pc' = [pc EXCEPT ![D] = "d_none", ![u] = "sd_xchg"]
    /\ ret' = [ret EXCEPT ![u] = back]
    /\ local' = [local EXCEPT ![D] = NoItem]
    /\ UNCHANGED <<result, callVars, ctlVars, rawPacketQueue_, poolVars,
                   capVars, storeVars, histVars, uiVars>>

\* stop() that runs its sequence whatever the state
NotRunning_Ignored == FALSE

\* stop(): if (!isRunning_)
NotRunning == ~isRunning_

\* stop(): if (!isRunning_) return
Stop_Enter(u) ==
    /\ CallBegins(u, "stop")
    /\ CanLockControl
    /\ retval' = [retval EXCEPT ![u] = "void"]
    /\ idleStop' = ~isRunning_
    /\ IF NotRunning
       THEN UNCHANGED <<pc, controlMutex_>>
       ELSE Goto(u, "stop_cap") /\ controlMutex_' = u
    /\ UNCHANGED <<ret, local, result, arg, isRunning_, currentDeviceName_,
                   threadPool_, rawPacketQueue_, poolVars, capVars, storeVars,
                   nSubmitted, accepted, uiVars,
                   dispatched, nPushed, popped, queuedBefore, invoked, threw,
                   delivered, everStarted, atStop, late, sentinels>>

\* stop() that pushes the poison pill without stopping the capture first
Stop_Capture_Skipped(u) ==
    /\ pc[u] = "stop_cap"
    /\ Goto(u, "stop_pill")
    /\ UNCHANGED <<ret, local, result, callVars, ctlVars, rawPacketQueue_,
                   poolVars, capVars, storeVars, histVars, uiVars>>

\* stop() that goes on to the join without pushing the poison pill
Stop_Pill_Skipped(u) ==
    /\ pc[u] = "stop_pill"
    /\ Goto(u, "stop_join")
    /\ UNCHANGED <<ret, local, result, callVars, ctlVars, rawPacketQueue_,
                   poolVars, capVars, storeVars, histVars, uiVars>>

Stop_Capture(u) == StopCapture(u, "stop_cap", "stop_pill")
Stop_Pill(u) == PushPoisonPill(u, "stop_pill", "stop_join")
Stop_Join(u) == JoinDispatcher(u, "stop_join", "stop_flag")

\* stop() that empties the store when it is done
Stop_Flag_Clearing(u) ==
    /\ pc[u] = "stop_flag"
    /\ isRunning_' = FALSE
    /\ controlMutex_' = NoThread
    /\ atStop' = parsedPackets_
    /\ parsedPackets_' = <<>>
    /\ Goto(u, "idle")
    /\ UNCHANGED <<ret, local, result, callVars, currentDeviceName_,
                   threadPool_, rawPacketQueue_, poolVars, capVars, id_,
                   mutexOwner, mutexShared, baseCount, nSubmitted, accepted, uiVars,
                   dispatched, nPushed, popped,
                   queuedBefore, invoked, threw, delivered, everStarted, late,
                   sentinels, idleStop>>

\* isRunning_ = false, and stop() returns
Stop_Flag(u) ==
    /\ pc[u] = "stop_flag"
    /\ isRunning_' = FALSE
    /\ controlMutex_' = NoThread
    /\ atStop' = parsedPackets_
    /\ Goto(u, "idle")
    /\ UNCHANGED <<ret, local, result, callVars, currentDeviceName_,
                   threadPool_, rawPacketQueue_, poolVars, capVars, storeVars,
                   nSubmitted, accepted, uiVars,
                   dispatched, nPushed, popped, queuedBefore, invoked, threw,
                   delivered, everStarted, late, sentinels, idleStop>>

\* restart() that does not ask whether a device is remembered
NoDeviceSet_Ignored == FALSE

\* restart(): if (currentDeviceName_.empty())
NoDeviceSet == currentDeviceName_ = NoDevice

\* restart(): if (currentDeviceName_.empty()) return false;
\* if (isRunning_) { the stop sequence }
Restart_Enter(u) ==
    /\ CallBegins(u, "restart")
    /\ CanLockControl
    /\ IF NoDeviceSet
       THEN /\ retval' = [retval EXCEPT ![u] = "false"]
            /\ UNCHANGED <<pc, controlMutex_>>
       ELSE /\ retval' = [retval EXCEPT ![u] = "none"]
            /\ controlMutex_' = u
            /\ Goto(u, IF isRunning_ THEN "rs_cap" ELSE "rs_clear")
    /\ UNCHANGED <<ret, local, result, arg, isRunning_, currentDeviceName_,
                   threadPool_, rawPacketQueue_, poolVars, capVars, storeVars,
                   histVars, uiVars>>

\* restart() whose stop sequence leaves out threadPool_->shutdown()
Restart_Join_NoShutdown(u) ==
    /\ pc[u] = "rs_join"
    /\ DispatcherJoined
    /\ pc' = [pc EXCEPT ![D] = "d_none", ![u] = "rs_flag"]
    /\ local' = [local EXCEPT ![D] = NoItem]
    /\ UNCHANGED <<ret, result, callVars, ctlVars, rawPacketQueue_, poolVars,
                   capVars, storeVars, histVars, uiVars>>

Restart_Capture(u) == StopCapture(u, "rs_cap", "rs_pill")
Restart_Pill(u) == PushPoisonPill(u, "rs_pill", "rs_join")
Restart_Join(u) == JoinDispatcher(u, "rs_join", "rs_flag")

\* isRunning_ = false at the end of restart()'s stop sequence
Restart_Flag(u) ==
    /\ pc[u] = "rs_flag"
    /\ isRunning_' = FALSE
    /\ Goto(u, "rs_clear")
    /\ UNCHANGED <<ret, local, result, callVars, controlMutex_,
                   currentDeviceName_, threadPool_, rawPacketQueue_, poolVars,
                   capVars, storeVars, histVars, uiVars>>

\* packetStore_->clear()
Restart_Clear(u) ==
    /\ pc[u] = "rs_clear"
    /\ Call(u, "clr_lock", "rs_qclear")
    /\ UNCHANGED <<local, result, callVars, ctlVars, rawPacketQueue_,
                   poolVars, capVars, storeVars, histVars, uiVars>>

\* rawPacketQueue_.clear()
Restart_QueueClear(u) ==
    /\ pc[u] = "rs_qclear"
    /\ rawPacketQueue_' = clear(rawPacketQueue_)
    /\ Goto(u, "rs_pool")
    /\ UNCHANGED <<ret, local, result, callVars, ctlVars, poolVars, capVars,
                   storeVars, histVars, uiVars>>

\* threadPool_ = std::make_unique<ThreadPool>(kWorkerCount): the pool that
\* is replaced is destroyed, and ~ThreadPool() calls shutdown().  The new
\* pool's workers have nothing to pop before the dispatcher is created, so
\* the old pool's destruction is taken first and the construction second.
Restart_DestroyPool(u) ==
    /\ pc[u] = "rs_pool"
    /\ Call(u, "sd_xchg", "rs_newpool")
    /\ UNCHANGED <<local, result, callVars, ctlVars, rawPacketQueue_,
                   poolVars, capVars, storeVars, histVars, uiVars>>

\* restart() that keeps the pool it has shut down
Restart_NewPool_Skipped(u) ==
    /\ pc[u] = "rs_newpool"
    /\ Goto(u, "rs_startcap")
    /\ UNCHANGED <<ret, local, result, callVars, ctlVars, rawPacketQueue_,
                   poolVars, capVars, storeVars, histVars, uiVars>>

Restart_NewPool(u) ==
    /\ pc[u] = "rs_newpool"
    /\ NewThreadPool
    /\ pc' = [WorkersStarted(pc) EXCEPT ![u] = "rs_startcap"]
    /\ UNCHANGED <<ret, local, result, callVars, controlMutex_, isRunning_,
                   currentDeviceName_, rawPacketQueue_, sdI, capVars,
                   storeVars, histVars, uiVars>>

\* packetCapture_->start(currentDeviceName_, callback);
\* if (!isPacketCaptureSuccess) return false
Restart_StartCapture(u, oc) ==
    /\ pc[u] = "rs_startcap"
    /\ LET r == PacketCapture_start(currentDeviceName_, "push", oc)
       IN  /\ capture_isRunning_' = r.running
           /\ device_' = r.device
           /\ callback_' = r.callback
           /\ IF r.ok
              THEN /\ Goto(u, "rs_spawn")
                   /\ UNCHANGED <<controlMutex_, retval>>
              ELSE /\ Goto(u, "idle")
                   /\ controlMutex_' = NoThread
                   /\ retval' = [retval EXCEPT ![u] = "false"]
    /\ UNCHANGED <<ret, local, result, op, arg, script, nCalls, isRunning_,
                   currentDeviceName_, threadPool_, rawPacketQueue_, poolVars,
                   capturedPacketCount_, storeVars, histVars, uiVars>>

Restart_Spawn(u) == SpawnDispatcher(u, "rs_spawn", "rs_run")
Restart_Run(u) == SetRunning(u, "rs_run")

\* isRunning(), queueSize(), capturedCount(), processedCount()
isRunning == isRunning_
queueSize == size(rawPacketQueue_)
capturedCount == capturedPacketCount_
processedCount == count

----------------------------------------------------------------------------
\* A caller that runs stop(); getStore()->clear(); start(device) in a row,
\* device being the one restart() would use

Seq_Begin(u) ==
    /\ pc[u] = "idle"
    /\ script[u] = <<>>
    /\ nCalls < MaxCalls
    /\ nCalls' = nCalls + 1
    /\ script' = [script EXCEPT ![u] = <<"stop", "clear", "start", "end">>]
    /\ op' = [op EXCEPT ![u] = "seq"]
    /\ retval' = [retval EXCEPT ![u] = "none"]
    /\ UNCHANGED <<pc, ret, local, result, arg, ctlVars, rawPacketQueue_,
                   poolVars, capVars, storeVars, histVars, uiVars>>

Seq_Clear(u) ==
    /\ CallBegins(u, "clear")
    /\ script[u] /= <<>>
    /\ Call(u, "clr_lock", "idle")
    /\ UNCHANGED <<local, result, arg, retval, ctlVars, rawPacketQueue_,
                   poolVars, capVars, storeVars, histVars, uiVars>>

Seq_End(u) ==
    /\ pc[u] = "idle"
    /\ script[u] = <<"end">>
    /\ script' = [script EXCEPT ![u] = <<>>]
    /\ UNCHANGED <<pc, ret, local, result, op, arg, retval, nCalls, ctlVars,
                   rawPacketQueue_, poolVars, capVars, storeVars, histVars, uiVars>>

----------------------------------------------------------------------------
\* Clients of a ThreadPool and of a PacketStore

Client_Submit(c, bad) ==
    /\ pc[c] = "idle"
    /\ nSubmitted < MaxTasks
    /\ nSubmitted' = nSubmitted + 1
    /\ local' = [local EXCEPT ![c] =
                   [n |-> nSubmitted + 1, bad |-> bad, id |-> 0]]
    /\ op' = [op EXCEPT ![c] = "submit"]
    /\ late' = IF stopped_ THEN late \cup {nSubmitted + 1} ELSE late
    /\ Call(c, "sub_check", "idle")
    /\ UNCHANGED <<result, arg, retval, script, nCalls, ctlVars,
                   rawPacketQueue_, poolVars, capVars, storeVars, accepted, uiVars,
                   dispatched, nPushed, popped,
                   queuedBefore, invoked, threw, delivered, everStarted,
                   atStop, sentinels, idleStop>>

Client_Shutdown(c) ==
    /\ pc[c] = "idle"
    /\ op' = [op EXCEPT ![c] = "shutdown"]
    /\ Call(c, "sd_xchg", "idle")
    /\ UNCHANGED <<local, result, arg, retval, script, nCalls, ctlVars,
                   rawPacketQueue_, poolVars, capVars, storeVars, histVars, uiVars>>

\* the IDs a record may carry when it is handed to addPacket
IncomingIds == {0, 7}
\* the IDs asked of getById
AskedIds == (-1 .. MaxStore + 1) \cup {IntMin, IntMax}

Client_Store(c, name, n, id) ==
    /\ pc[c] = "idle"
    /\ name = "add_lock" => Len(parsedPackets_) < MaxStore
    /\ op' = [op EXCEPT ![c] = name]
    /\ local' = [local EXCEPT ![c] = [n |-> n, bad |-> FALSE, id |-> id]]
    /\ result' = [result EXCEPT ![c] = NoResult]
    /\ Call(c, name, "idle")
    /\ UNCHANGED <<arg, retval, script, nCalls, ctlVars, rawPacketQueue_,
                   poolVars, capVars, storeVars, histVars, uiVars>>

Client_Add(c) == \E n \in 1..2, id \in IncomingIds :
                     Client_Store(c, "add_lock", n, id)
Client_Clear(c) == Client_Store(c, "clr_lock", 0, 0)
Client_Count(c) == Client_Store(c, "cnt_lock", 0, 0)
Client_GetById(c) == \E id \in AskedIds : Client_Store(c, "get_lock", 0, id)
Client_GetAll(c) == Client_Store(c, "all_lock", 0, 0)

----------------------------------------------------------------------------
\* Specifications

PoolSteps(T) ==
    \/ \E t \in T : Submit_Check(t)
    \/ \E t \in T : Submit_Push(t)
    \/ \E w \in Workers : Worker_Pop(w)
    \/ \E w \in Workers : Worker_Run(w)

ShutdownSteps(T) ==
    \/ \E t \in T : Shutdown_Exchange(t)
    \/ \E t \in T : Shutdown_Pill(t)
    \/ \E t \in T : Shutdown_JoinAll(t)

AddSteps(T) ==
    \/ \E t \in T : Add_Lock(t)
    \/ \E t \in T : Add_Id(t)
    \/ \E t \in T : Add_Push(t)

ClearSteps(T) ==
    \/ \E t \in T : Clear_Lock(t)
    \/ \E t \in T : Clear_Swap(t)
    \/ \E t \in T : Clear_Id(t)

ReadSteps(T) ==
    \/ \E t \in T : Read_Lock(t)
    \/ \E t \in T : Count_Read(t)
    \/ \E t \in T : Get_Read(t)
    \/ \E t \in T : All_Read(t)

PipelineSteps(U) ==
    \/ \E u \in U : \E d \in StartArgs(u), oc \in Outcomes : Start(u, d, oc)
    \/ \E u \in U : Start_Spawn(u)
    \/ \E u \in U : Start_Run(u)
    \/ \E u \in U : Stop_Enter(u)
    \/ \E u \in U : Stop_Capture(u)
    \/ \E u \in U : Stop_Pill(u)
    \/ \E u \in U : Stop_Join(u)
    \/ \E u \in U : Stop_Flag(u)
    \/ \E u \in U : Restart_Enter(u)
    \/ \E u \in U : Restart_Capture(u)
    \/ \E u \in U : Restart_Pill(u)
    \/ \E u \in U : Restart_Join(u)
    \/ \E u \in U : Restart_Flag(u)
    \/ \E u \in U : Restart_Clear(u)
    \/ \E u \in U : Restart_QueueClear(u)
    \/ \E u \in U : Restart_DestroyPool(u)
    \/ \E u \in U : Restart_NewPool(u)
    \/ \E u \in U : \E oc \in Outcomes : Restart_StartCapture(u, oc)
    \/ \E u \in U : Restart_Spawn(u)
    \/ \E u \in U : Restart_Run(u)
    \/ Dispatcher_Pop
    \/ PoolSteps({D})
    \/ ShutdownSteps(U)
    \/ AddSteps(Workers)
    \/ ClearSteps(U)

ControllerSteps(U) ==
    \/ PipelineSteps(U)
    \/ \E bad \in BOOLEAN : OnPacketArrives(bad)

\* the thread that drives the controller (the UI's main thread)
MainCaller == {<<"u", 1>>}

Next == ControllerSteps(MainCaller)

Spec == Init /\ [][Next]_vars

NextEquiv ==
    \/ ControllerSteps(MainCaller)
    \/ \E u \in MainCaller : Seq_Begin(u)
    \/ \E u \in MainCaller : Seq_Clear(u)
    \/ \E u \in MainCaller : Seq_End(u)

EquivSpec == Init /\ [][NextEquiv]_vars

NextPool ==
    \/ \E c \in Clients : \E bad \in BOOLEAN : Client_Submit(c, bad)
    \/ \E c \in Clients : Client_Shutdown(c)
    \/ PoolSteps(Clients)
    \/ ShutdownSteps(Clients)
    \/ AddSteps(Workers)

PoolSpec == Init /\ [][NextPool]_vars

NextStore ==
    \/ \E c \in Clients : Client_Add(c)
    \/ \E c \in Clients : Client_Clear(c)
    \/ \E c \in Clients : Client_Count(c)
    \/ \E c \in Clients : Client_GetById(c)
    \/ \E c \in Clients : Client_GetAll(c)
    \/ AddSteps(Clients)
    \/ ClearSteps(Clients)
    \/ ReadSteps(Clients)

StoreSpec == Init /\ [][NextStore]_vars

\* frames the capture source delivers while two threads drive the controller
MaxConcFrames == 1

\* two threads call start(), stop() and restart() at any time
NextConc ==
    \/ PipelineSteps(Callers)
    \/ capturedPacketCount_ < MaxConcFrames /\ OnPacketArrives(FALSE)

ConcSpec == Init /\ [][NextConc]_vars

\* the steps of the dispatcher thread, of a worker thread, and of a caller
\* thread once it is inside start(), stop() or restart()
DispatcherSteps == Dispatcher_Pop \/ PoolSteps({D})

WorkerSteps(w) ==
    \/ Worker_Pop(w)
    \/ Worker_Run(w)
    \/ AddSteps({w})

BodySteps(u) ==
    \/ Start_Spawn(u) \/ Start_Run(u)
    \/ Stop_Capture(u) \/ Stop_Pill(u) \/ Stop_Join(u) \/ Stop_Flag(u)
    \/ Restart_Capture(u) \/ Restart_Pill(u) \/ Restart_Join(u)
    \/ Restart_Flag(u) \/ Restart_Clear(u) \/ Restart_QueueClear(u)
    \/ Restart_DestroyPool(u) \/ Restart_NewPool(u)
    \/ \E oc \in Outcomes : Restart_StartCapture(u, oc)
    \/ Restart_Spawn(u) \/ Restart_Run(u)
    \/ ShutdownSteps({u})
    \/ ClearSteps({u})

\* frames the capture source delivers in a behaviour checked for progress
MaxLiveFrames == 1

NextLive ==
    \/ PipelineSteps(MainCaller)
    \/ /\ capturedPacketCount_ < MaxLiveFrames
       /\ \E bad \in BOOLEAN : OnPacketArrives(bad)

\* Every thread that can take a step is scheduled in the end; a decode task
\* is one step, so it terminates.  The capture source owes no frame and the
\* callers owe no call.
LiveSpec ==
    /\ Init
    /\ [][NextLive]_vars
    /\ WF_vars(DispatcherSteps)
    /\ \A w \in Workers : WF_vars(WorkerSteps(w))
    /\ \A u \in MainCaller : WF_vars(BodySteps(u))

----------------------------------------------------------------------------
\* Properties

StopReturned(u) == pc[u] = "idle" /\ op[u] = "stop"
StoredFrames == {parsedPackets_[i].n : i \in 1..Len(parsedPackets_)}
AllDecodesSucceed == \A i \in 1..Len(delivered) : ~delivered[i]
IsPill(x) == ~x.some
Pills(q) == Len(SelectSeq(q, IsPill))
ShutdownReturned == \A w \in Workers : pc[w] = "w_joined"
WorkerAlive(w) == pc[w] \notin {"w_exited", "w_joined"}
StartCallBy(u) == pc[u] = "idle" /\ op'[u] = "start" /\ nCalls' = nCalls + 1

\* C1: on a controller whose store was never cleared, once stop() has
\* returned and every decode succeeded, processedCount() is the number of
\* frames delivered and each delivered frame is stored exactly once.
C1_NoLossNoDuplication ==
    \A u \in MainCaller :
        (StopReturned(u) /\ baseCount = 0 /\ AllDecodesSucceed) =>
            /\ processedCount = capturedCount
            /\ StoredFrames = 1..capturedCount

C1_Witness ==
    /\ StopReturned(<<"u", 1>>)
    /\ baseCount = 0
    /\ AllDecodesSucceed
    /\ capturedCount >= 2
    /\ processedCount = capturedCount

\* C2: the steps of a stop sequence come in order.  A poison pill is pushed
\* only once the capture has stopped and while the queue holds no pill; the
\* dispatcher is joined only once it has consumed the pill, the capture
\* being stopped; the pool of a Running pipeline starts its shutdown only
\* once the dispatcher is joined and the queue is drained; isRunning_ falls
\* only once the capture is stopped, the queue is empty, the dispatcher is
\* joined and the pool is shut down with every worker joined.
C2_StopOrder ==
    [][ /\ Pills(rawPacketQueue_') > Pills(rawPacketQueue_) =>
             /\ ~capture_isRunning_
             /\ isRunning_
             /\ Pills(rawPacketQueue_) = 0
             /\ ~stopped_
        /\ (pc[D] /= "d_none" /\ pc'[D] = "d_none") =>
             /\ pc[D] = "d_done"
             /\ ~capture_isRunning_
             /\ isRunning_
             /\ ~stopped_
        /\ (isRunning_ /\ ~stopped_ /\ stopped_') =>
             /\ pc[D] = "d_none"
             /\ rawPacketQueue_ = <<>>
             /\ ~capture_isRunning_
        /\ (isRunning_ /\ ~isRunning_') =>
             /\ ~capture_isRunning_
             /\ rawPacketQueue_ = <<>>
             /\ pc[D] = "d_none"
             /\ stopped_
             /\ tasks_ = <<>>
             /\ ShutdownReturned
      ]_vars

C2_Witness ==
    /\ StopReturned(<<"u", 1>>)
    /\ ~isRunning_
    /\ stopped_
    /\ ShutdownReturned
    /\ processedCount >= 1

\* C3: once the shutdown() that shut the pool down has returned, every task
\* whose submit() read stopped_ as false has been called by a worker.
C3_DrainUnderConcurrency ==
    ShutdownReturned => accepted \subseteq invoked

\* C4: the stored records carry the IDs 1, 2, ..., count() in storage
\* order, and whenever no writer is inside the store the ID counter equals
\* the number of stored records.
C4_IdsSequential ==
    /\ \A i \in 1..Len(parsedPackets_) : parsedPackets_[i].id = i
    /\ mutexOwner = NoThread => id_ = Len(parsedPackets_)

C4_Witness ==
    /\ Len(parsedPackets_) >= 2
    /\ \E a, b \in Clients : a /= b /\ pc[a] = "add_lock" /\ pc[b] = "clr_lock"

\* C5: a thread that has just entered addPacket, getById, count or
\* getAllPackets under the lock sees the ID counter equal to the number of
\* records (never a half-reset store), and an addPacket that appends to an
\* empty store assigns ID 1.
C5_ClearAtomic ==
    /\ \A t \in Threads :
          pc[t] \in {"add_id", "cnt_read", "get_read", "all_read"} =>
              id_ = Len(parsedPackets_)
    /\ \A t \in Threads :
          (pc[t] = "add_push" /\ parsedPackets_ = <<>>) => local[t].id = 1

C5_Witness ==
    \E a, b \in Clients :
        /\ pc[a] = "clr_id"
        /\ id_ >= 2
        /\ parsedPackets_ = <<>>
        /\ pc[b] \in {"add_lock", "cnt_lock", "get_lock", "all_lock"}

\* C6: a worker whose task throws goes back to popping; while the pool has
\* not been shut down every worker is alive; and once shutdown() has
\* returned every task queued before the shutdown began has been called.
C6_TaskFailureIsolated ==
    /\ [](~stopped_ => \A w \in Workers : WorkerAlive(w))
    /\ [](ShutdownReturned => queuedBefore \subseteq invoked)
    /\ [][\A w \in Workers :
            (pc[w] = "w_run" /\ ProcessThrows(local[w]) /\ pc'[w] /= "w_run")
                => pc'[w] = "w_pop"]_vars

C6_Witness ==
    /\ ~stopped_
    /\ \E n \in threw : \E i \in 1..Len(parsedPackets_) :
          parsedPackets_[i].n > n
    /\ \A w \in Workers : pc[w] = "w_pop"

\* C7: a start() made while the pipeline is Running returns false and
\* changes no state of the controller, the capture, the queue, the pool,
\* the store or any thread.
C7_StartWhileRunning ==
    [][\A u \in MainCaller :
          (StartCallBy(u) /\ isRunning_) =>
              /\ retval'[u] = "false"
              /\ UNCHANGED <<pc, ctlVars, rawPacketQueue_, poolVars, capVars,
                             storeVars, local>>
      ]_vars

C7_Witness ==
    /\ pc[<<"u", 1>>] = "idle"
    /\ op[<<"u", 1>>] = "start"
    /\ retval[<<"u", 1>>] = "false"
    /\ isRunning_
    /\ pc[D] /= "d_none"
    /\ arg[<<"u", 1>>] /= currentDeviceName_

\* C8 as claimed: a start() whose capture start fails returns false, leaves
\* the pipeline Stopped with no dispatcher, the remembered device, the store
\* and the queue untouched, and the pool object the same as before.
C8_FailedStartChangesNothing ==
    [][\A u \in MainCaller :
          (StartCallBy(u) /\ ~isRunning_ /\ retval'[u] = "false") =>
              /\ ~isRunning_'
              /\ pc[D] = "d_none" /\ pc'[D] = "d_none"
              /\ UNCHANGED <<currentDeviceName_, rawPacketQueue_, storeVars>>
              /\ threadPool_' = threadPool_
      ]_vars

\* C8 amended: as above, but the pool object is the same only if it was
\* still accepting; a pool that had been shut down has been replaced by a
\* new, accepting pool with an empty task queue and idle workers.
C8_FailedStartRecreatesStoppedPool ==
    [][\A u \in MainCaller :
          (StartCallBy(u) /\ ~isRunning_ /\ retval'[u] = "false") =>
              /\ ~isRunning_'
              /\ pc[D] = "d_none" /\ pc'[D] = "d_none"
              /\ UNCHANGED <<currentDeviceName_, rawPacketQueue_, storeVars>>
              /\ IF stopped_
                 THEN /\ threadPool_' /= threadPool_
                      /\ ~stopped_'
                      /\ tasks_' = <<>>
                      /\ \A w \in Workers : pc'[w] = "w_pop"
                 ELSE UNCHANGED <<threadPool_, stopped_, tasks_, pc>>
      ]_vars

C8_Witness ==
    /\ pc[<<"u", 1>>] = "idle"
    /\ op[<<"u", 1>>] = "start"
    /\ retval[<<"u", 1>>] = "false"
    /\ ~isRunning_
    /\ currentDeviceName_ /= NoDevice
    /\ threadPool_ = 2
    /\ ~stopped_
    /\ processedCount >= 1

\* the steps of restart() between the store's clear and the capture's start
AfterClearPhase(u) ==
    \/ pc[u] \in {"rs_qclear", "rs_pool", "rs_newpool", "rs_startcap"}
    \/ pc[u] \in {"sd_xchg", "sd_pills", "sd_join"} /\ ret[u] = "rs_newpool"

\* C9: after restart()'s clear phase processedCount() is 0 until the
\* capture is started again; no record of a frame delivered before the
\* clear is ever in the store after it; and the records of the new run are
\* numbered from 1.
C9_RestartEmptiesStore ==
    /\ \A u \in MainCaller :
          AfterClearPhase(u) => processedCount = 0 /\ id_ = 0
    /\ \A i \in 1..Len(parsedPackets_) :
          /\ parsedPackets_[i].n > baseCount
          /\ parsedPackets_[i].id = i

C9_Witness ==
    /\ op[<<"u", 1>>] = "restart"
    /\ retval[<<"u", 1>>] = "true"
    /\ baseCount >= 1
    /\ \A i \in 1..baseCount : ~delivered[i]
    /\ Len(parsedPackets_) >= 1
    /\ parsedPackets_[1].id = 1

\* restart(), or the script stop(); clear(); start(device), has returned
Finished(u) ==
    /\ pc[u] = "idle"
    /\ op[u] = "restart" \/ script[u] = <<"end">>

\* C10: when restart() has returned and when the script stop(); clear();
\* start(remembered device) has returned, the same holds: the return value
\* says whether the capture is running, isRunning() equals it, the pool is
\* accepting, and the store, the queue and the pool's tasks hold only
\* frames delivered after the clear, none if the capture did not start.
C10_RestartEqualsStopClearStart ==
    \A u \in MainCaller :
        Finished(u) =>
            /\ retval[u] \in {"true", "false"}
            /\ (retval[u] = "true") = capture_isRunning_
            /\ isRunning = capture_isRunning_
            /\ ~stopped_
            /\ \A w \in Workers : WorkerAlive(w)
            /\ (pc[D] /= "d_none") = isRunning
            /\ Pills(rawPacketQueue_) = 0
            /\ \A i \in 1..Len(rawPacketQueue_) :
                  rawPacketQueue_[i].n > baseCount
            /\ \A i \in 1..Len(tasks_) :
                  ~tasks_[i].empty /\ tasks_[i].n > baseCount
            /\ \A i \in 1..Len(parsedPackets_) :
                  parsedPackets_[i].n > baseCount /\ parsedPackets_[i].id = i
            /\ ~isRunning =>
                  /\ rawPacketQueue_ = <<>>
                  /\ tasks_ = <<>>
                  /\ parsedPackets_ = <<>>

C10_Witness ==
    /\ pc[<<"u", 1>>] = "idle"
    /\ script[<<"u", 1>>] = <<"end">>
    /\ retval[<<"u", 1>>] = "true"
    /\ baseCount >= 1
    /\ \A i \in 1..baseCount : ~delivered[i]

----------------------------------------------------------------------------
\* restart() has returned true and the capture has delivered no frame since
RestartedNoFrameYet(u) ==
    /\ pc[u] = "idle"
    /\ op[u] = "restart"
    /\ retval[u] = "true"
    /\ capturedPacketCount_ = baseCount

\* C11: once restart() has returned true, and until the capture delivers a
\* new frame, queueSize(), processedCount() and capturedCount() are all 0.
C11_RestartResetsCounters ==
    \A u \in MainCaller :
        RestartedNoFrameYet(u) =>
            /\ queueSize = 0
            /\ processedCount = 0
            /\ capturedCount = 0

C11_Witness ==
    /\ RestartedNoFrameYet(<<"u", 1>>)
    /\ queueSize = 0
    /\ processedCount = 0
    /\ capturedCount >= 1

----------------------------------------------------------------------------
\* the step by which caller u enters restart()
RestartCallBy(u) ==
    pc[u] = "idle" /\ op'[u] = "restart" /\ nCalls' = nCalls + 1

\* C12: a restart() made when no start() has ever returned true returns
\* false and changes no state of the controller, the capture, the queue,
\* the pool, the store or any thread.
C12_RestartWithoutDevice ==
    [][\A u \in MainCaller :
          (RestartCallBy(u) /\ ~everStarted) =>
              /\ retval'[u] = "false"
              /\ ~isRunning_'
              /\ UNCHANGED <<pc, ctlVars, rawPacketQueue_, poolVars, capVars,
                             storeVars, local>>
      ]_vars

C12_Witness ==
    /\ pc[<<"u", 1>>] = "idle"
    /\ op[<<"u", 1>>] = "restart"
    /\ retval[<<"u", 1>>] = "false"
    /\ ~everStarted
    /\ nCalls >= 2
    /\ device_ /= NoDevice
    /\ threadPool_ = 1

----------------------------------------------------------------------------
\* the step by which caller u enters stop()
StopCallBy(u) ==
    pc[u] = "idle" /\ op'[u] = "stop" /\ nCalls' = nCalls + 1

\* C13: a stop() made while the pipeline is Stopped returns at once and
\* changes nothing: no sentinel is pushed, and the capture, the dispatcher,
\* the pool, the store and every thread are as before, so that any number
\* of such calls in a row leaves the state one of them leaves.
C13_StopWhileStopped ==
    [][\A u \in MainCaller :
          (StopCallBy(u) /\ ~isRunning_) =>
              /\ pc'[u] = "idle"
              /\ UNCHANGED <<pc, ctlVars, rawPacketQueue_, poolVars, capVars,
                             storeVars, local, everStarted, atStop>>
      ]_vars

C13_Witness ==
    /\ pc[<<"u", 1>>] = "idle"
    /\ op[<<"u", 1>>] = "stop"
    /\ idleStop
    /\ ~isRunning_
    /\ everStarted
    /\ stopped_
    /\ Len(atStop) >= 1
    /\ parsedPackets_ = atStop

----------------------------------------------------------------------------
\* C14: the records the store held when stop() returned stay in place,
\* unchanged, through a following start() and the run it begins, and every
\* record, those added after the resume included, carries its position as
\* its ID, so the new ones continue at (previous count) + 1.
C14_PauseResumeKeepsStore ==
    /\ Len(atStop) <= Len(parsedPackets_)
    /\ \A i \in 1..Len(atStop) : parsedPackets_[i] = atStop[i]
    /\ \A i \in 1..Len(parsedPackets_) : parsedPackets_[i].id = i

C14_Witness ==
    /\ pc[<<"u", 1>>] = "idle"
    /\ op[<<"u", 1>>] = "start"
    /\ retval[<<"u", 1>>] = "true"
    /\ Len(atStop) >= 1
    /\ Len(parsedPackets_) > Len(atStop)
    /\ parsedPackets_[Len(atStop) + 1].id = Len(atStop) + 1

----------------------------------------------------------------------------
\* a caller is inside the body of start(), stop() or restart()
InBody(u) == pc[u] /= "idle"

\* C15: at most one caller is inside the body of a lifecycle call, that
\* caller holds controlMutex_, and no dispatcher thread is ever created
\* while another one exists.
C15_LifecycleSerialized ==
    /\ \A a, b \in Callers : (InBody(a) /\ InBody(b)) => a = b
    /\ \A u \in Callers : InBody(u) => controlMutex_ = u
    /\ pc[D] /= "d_terminate"

C15_Witness ==
    /\ pc[<<"u", 1>>] = "stop_join"
    /\ op[<<"u", 2>>] = "restart"
    /\ retval[<<"u", 2>>] = "true"
    /\ pc[D] = "d_pop"
    /\ rawPacketQueue_ /= <<>>

----------------------------------------------------------------------------
\* C16: a stop() that found the pipeline Running returns in the end, with
\* the pipeline Stopped, whether or not the capture source delivers
\* anything and whatever the queue holds.
C16_StopTerminates ==
    \A u \in MainCaller :
        (pc[u] = "stop_cap") ~> (StopReturned(u) /\ ~isRunning_)

C16_Witness ==
    /\ pc[<<"u", 1>>] = "stop_join"
    /\ capturedPacketCount_ = 0
    /\ pc[D] = "d_pop"
    /\ rawPacketQueue_ = <<Nullopt>>

----------------------------------------------------------------------------
\* C17: getById(id) returns the record whose ID is id when id is in
\* 1..count(), throws std::out_of_range for every other id, and leaves the
\* store as it was.
C17_GetByIdRange ==
    [][\A t \in Clients :
          (pc[t] = "get_read" /\ pc'[t] /= "get_read") =>
              /\ IF local[t].id \in 1..count
                 THEN /\ result'[t].kind = "packet"
                      /\ result'[t].pkts = <<parsedPackets_[local[t].id]>>
                      /\ result'[t].pkts[1].id = local[t].id
                 ELSE /\ result'[t].kind = "out_of_range"
                      /\ result'[t].pkts = <<>>
              /\ UNCHANGED <<parsedPackets_, id_>>
      ]_vars

C17_Witness ==
    \E a, b \in Clients :
        /\ result[a].kind = "packet"
        /\ result[a].val = 2
        /\ result[b].kind = "out_of_range"
        /\ result[b].val = 0
        /\ count >= 2

----------------------------------------------------------------------------
\* a thread is inside the critical section of addPacket or clear
InWriter(t) == pc[t] \in {"add_id", "add_push", "clr_swap", "clr_id"}
\* a thread is inside the critical section of count, getById, getAllPackets
InReader(t) == pc[t] \in {"cnt_read", "get_read", "all_read"}

\* C18: while a thread is inside addPacket or clear with the lock, no other
\* thread is inside any PacketStore method's critical section; readers may
\* be inside together.
C18_ReaderWriterExclusion ==
    /\ \A a, b \in Threads :
          (InWriter(a) /\ a /= b) => (~InWriter(b) /\ ~InReader(b))
    /\ \A t \in Threads : InWriter(t) => (mutexOwner = t /\ mutexShared = {})
    /\ \A t \in Threads : InReader(t) => t \in mutexShared

C18_Witness ==
    \E a, b \in Clients :
        /\ a /= b
        /\ pc[a] = "get_read"
        /\ pc[b] = "all_read"
        /\ mutexShared = {a, b}
        /\ count >= 1

----------------------------------------------------------------------------
\* C19: a task whose submit() began once stopped_ was set is never pushed
\* onto tasks_ and never called, and its submit() returns as any other.
C19_LateSubmitDropped ==
    /\ late \cap (accepted \cup queuedBefore \cup invoked) = {}
    /\ \A i \in 1..Len(tasks_) : tasks_[i].empty \/ tasks_[i].n \notin late
    /\ \A c \in Clients :
          (op[c] = "submit" /\ local[c].n \in late) => pc[c] = "sub_check"

C19_Witness ==
    /\ late = {2}
    /\ invoked = {1}
    /\ tasks_ = <<>>
    /\ ShutdownReturned
    /\ \A c \in Clients : pc[c] = "idle"
    /\ \E c \in Clients : op[c] = "submit"

----------------------------------------------------------------------------
\* C20: over any number of shutdown() calls on a pool, at most one sentinel
\* per worker is pushed, exactly one per worker once a shutdown() has
\* joined the workers; the workers are joined by one call only; and a call
\* that finds stopped_ set returns at once, leaving the task queue, the
\* workers and every other thread as they are.
C20_ShutdownIdempotent ==
    /\ [](sentinels <= Cardinality(Workers))
    /\ [](ShutdownReturned => sentinels = Cardinality(Workers))
    /\ [][\A t \in Clients :
            (pc[t] = "sd_join" /\ pc'[t] /= "sd_join") =>
                \A w \in Workers : pc[w] = "w_exited"]_vars
    /\ [][\A t \in Clients :
            (pc[t] = "sd_xchg" /\ stopped_ /\ pc'[t] /= "sd_xchg") =>
                /\ pc' = [pc EXCEPT ![t] = ret[t]]
                /\ UNCHANGED <<tasks_, stopped_, sentinels, sdI>>]_vars

C20_Witness ==
    /\ \A c \in Clients : pc[c] = "idle" /\ op[c] = "shutdown"
    /\ ShutdownReturned
    /\ sentinels = Cardinality(Workers)
    /\ tasks_ = <<>>
    /\ invoked /= {}

----------------------------------------------------------------------------
\* PacketProcessor

\* Longest layer chain the parser hands to process()
MaxLayers == 5

\* pcpp::ProtocolType values process() and protocolTypeToString() name, and
\* three the parser produces that neither of them names
ProtocolTypes ==
    {"Ethernet", "ARP", "IPv4", "IPv6", "ICMP", "TCP", "UDP", "DNS",
     "HTTPRequest", "VLAN", "VXLAN", "DHCP",
     "GenericPayload", "UnknownProtocol", "PacketTrailer"}

\* the layer parsedPacket.getFirstLayer() can return
FirstLayerTypes ==
    {"Ethernet", "IPv4", "IPv6", "GenericPayload", "UnknownProtocol"}

\* the layers layer->getNextLayer() can return after a layer of type p
NextLayerTypes(p) ==
    LET above ==
            CASE p = "Ethernet" -> {"IPv4", "IPv6", "ARP", "VLAN"}
              [] p = "VLAN"     -> {"IPv4", "IPv6", "ARP"}
              [] p = "IPv4"     -> {"TCP", "UDP", "ICMP"}
              [] p = "IPv6"     -> {"TCP", "UDP"}
              [] p = "TCP"      -> {"HTTPRequest"}
              [] p = "UDP"      -> {"DNS", "DHCP", "VXLAN"}
              [] p = "VXLAN"    -> {"Ethernet"}
              [] OTHER          -> {}
        rest ==
            CASE p \in {"GenericPayload", "UnknownProtocol",
                        "PacketTrailer"} -> {}
              [] p \in {"ARP", "ICMP", "DNS", "DHCP"} -> {"PacketTrailer"}
              [] p = "VXLAN" -> {}
              [] OTHER -> {"GenericPayload", "UnknownProtocol",
                           "PacketTrailer"}
    IN  above \cup rest

RECURSIVE ChainsFrom(_, _)
ChainsFrom(prefix, n) ==
    {prefix} \cup
    IF n = 0 THEN {}
    ELSE UNION {ChainsFrom(Append(prefix, p), n - 1) :
                    p \in NextLayerTypes(prefix[Len(prefix)])}

\* pcpp::Packet parsedPacket(&rawPacket): the layers of one frame, lowest first
Chains ==
    {<<>>} \cup UNION {ChainsFrom(<<p>>, MaxLayers - 1) : p \in FirstLayerTypes}

\* a default-constructed std::string address
NoAddr == [family |-> "", layer |-> 0, end |-> ""]

\* getSourceMac().toString() / getSrcIPAddress().toString() of layer i,
\* and the destination likewise
AddrOf(p, i, e) ==
    [family |-> IF p = "Ethernet" THEN "MAC" ELSE p, layer |-> i, end |-> e]

\* the bytes of the frames handed to process(): rawPacketData.rawData
RawBytes == {<<0>>, <<8, 6>>}

\* packetscope::ParsedPacket result{}
EmptyParsedPacket ==
    [id |-> 0, rawData |-> <<>>, protocol |-> "", srcAddr |-> NoAddr,
     dstAddr |-> NoAddr, layerSummaries |-> <<>>]

\* a process() that hands out the frame's number as the record's ID
CopyMetadata_WithId(r, raw) == [r EXCEPT !.rawData = raw, !.id = Len(raw)]

\* result.rawData = rawPacketData.rawData, with the timestamp and lengths
CopyMetadata(r, raw) == [r EXCEPT !.rawData = raw]

protocolTypeToString(protocolType) ==
    CASE protocolType = "Ethernet"     -> "Ethernet"
      [] protocolType = "ARP"          -> "ARP"
      [] protocolType = "IPv4"         -> "IPv4"
      [] protocolType = "IPv6"         -> "IPv6"
      [] protocolType = "ICMP"         -> "ICMP"
      [] protocolType = "TCP"          -> "TCP"
      [] protocolType = "UDP"          -> "UDP"
      [] protocolType = "DNS"          -> "DNS"
      [] protocolType = "HTTPRequest"  -> "HTTP"
      [] OTHER                         -> "Unknown"

\* the test that guards the assignment to result.protocol
UpdatesProtocol(p) ==
    /\ p /= "GenericPayload"
    /\ p /= "UnknownProtocol"
    /\ p /= "PacketTrailer"

\* a switch that has lost its IPv6 case
HasAddresses_NoIPv6(p) == p \in {"Ethernet", "IPv4"}

\* the cases of switch (layer->getProtocol())
HasAddresses(p) == p \in {"Ethernet", "IPv4", "IPv6"}

\* one pass of while (layer) over the layer at position i, of type p
WalkLayer(r, p, i) ==
    [r EXCEPT
       !.protocol = IF UpdatesProtocol(p) THEN protocolTypeToString(p) ELSE @,
       !.srcAddr = IF HasAddresses(p) THEN AddrOf(p, i, "src") ELSE @,
       !.dstAddr = IF HasAddresses(p) THEN AddrOf(p, i, "dst") ELSE @,
       !.layerSummaries = Append(@, p)]

\* the worker that runs process() on one frame
Decoder == W(1)

DecodeInit ==
    \E chain \in Chains, raw \in RawBytes :
        /\ pc = [t \in Threads |->
                    IF t = Decoder THEN "process_walk"
                    ELSE IF t \in Workers THEN "w_pop"
                    ELSE IF t = D THEN "d_none" ELSE "idle"]
        /\ ret = [t \in Threads |-> "idle"]
        /\ local = [t \in Threads |->
                       IF t = Decoder
                       THEN [chain |-> chain, layer |-> 1, raw |-> raw,
                             result |-> CopyMetadata(EmptyParsedPacket, raw)]
                       ELSE NoItem]
        /\ result = [t \in Threads |-> NoResult]
        /\ op = [t \in Callers \cup Clients |-> "none"]
        /\ arg = [t \in Callers |-> NoDevice]
        /\ retval = [t \in Callers |-> "none"]
        /\ script = [t \in Callers |-> <<>>]
        /\ controlMutex_ = NoThread
        /\ isRunning_ = FALSE
        /\ currentDeviceName_ = NoDevice
        /\ threadPool_ = 1
        /\ rawPacketQueue_ = <<>>
        /\ stopped_ = FALSE
        /\ tasks_ = <<>>
        /\ sdI = [t \in Threads |-> 0]
        /\ capture_isRunning_ = FALSE
        /\ device_ = NoDevice
        /\ callback_ = "unset"
        /\ capturedPacketCount_ = 0
        /\ parsedPackets_ = <<>>
        /\ id_ = 0
        /\ mutexOwner = NoThread
        /\ mutexShared = {}
        /\ nCalls = 0
        /\ nSubmitted = 0
        /\ baseCount = 0
        /\ accepted = {}
        /\ dispatched = <<>>
        /\ nPushed = 0
        /\ popped = <<>>
        /\ queuedBefore = {}
        /\ invoked = {}
        /\ threw = {}
        /\ delivered = <<>>
        /\ everStarted = FALSE
        /\ atStop = <<>>
        /\ late = {}
        /\ sentinels = 0
        /\ idleStop = FALSE
        /\ cachedRowCount_ = 0
        /\ updateTimer_ = FALSE
        /\ window = NoWindow

\* while (layer) { ...; layer = layer->getNextLayer(); }
Process_Walk(w) ==
    /\ pc[w] = "process_walk"
    /\ local[w].layer <= Len(local[w].chain)
    /\ local' = [local EXCEPT ![w] =
                    [chain |-> @.chain, layer |-> @.layer + 1, raw |-> @.raw,
                     result |-> WalkLayer(@.result, @.chain[@.layer],
                                          @.layer)]]
    /\ UNCHANGED <<pc, ret, result, callVars, ctlVars, rawPacketQueue_,
                   poolVars, capVars, storeVars, histVars, uiVars>>

\* return result;
Process_Return(w) ==
    /\ pc[w] = "process_walk"
    /\ local[w].layer > Len(local[w].chain)
    /\ Goto(w, "process_done")
    /\ UNCHANGED <<ret, local, result, callVars, ctlVars, rawPacketQueue_,
                   poolVars, capVars, storeVars, histVars, uiVars>>

NextDecode == Process_Walk(Decoder) \/ Process_Return(Decoder)

DecodeSpec == DecodeInit /\ [][NextDecode]_vars

\* process() has returned
Decoded == pc[Decoder] = "process_done"

\* what process() was given and what it returned
DecodedChain == local[Decoder].chain
Parsed == local[Decoder].result

\* the layer types for which protocolTypeToString has a display name
HasDisplayName(p) == protocolTypeToString(p) /= "Unknown"

\* positions of the chain that hold a layer with a display name
NamedLayers(chain) == {i \in 1..Len(chain) : HasDisplayName(chain[i])}

\* the layer types that carry a source and a destination address
AddressBearing == {"Ethernet", "IPv4", "IPv6"}

\* positions of the chain that hold a layer with addresses
AddressLayers(chain) == {i \in 1..Len(chain) : chain[i] \in AddressBearing}

Highest(S) == CHOOSE i \in S : \A j \in S : j <= i

----------------------------------------------------------------------------
\* C21: the protocol label process() returns is the display name of the
\* highest layer that has one: after a layer with a display name, no layer
\* that is generic payload, a trailer or without a display name changes the
\* label, never to "Unknown"; Ethernet/IPv4/TCP gives "TCP" and Ethernet
\* followed by unrecognized bytes gives "Ethernet".
C21_HighestRecognizedLayer ==
    /\ (Decoded /\ NamedLayers(DecodedChain) /= {}) =>
           Parsed.protocol =
               protocolTypeToString(
                   DecodedChain[Highest(NamedLayers(DecodedChain))])
    /\ (Decoded /\ DecodedChain = <<"Ethernet", "IPv4", "TCP">>) =>
           Parsed.protocol = "TCP"
    /\ (Decoded /\ DecodedChain = <<"Ethernet", "GenericPayload">>) =>
           Parsed.protocol = "Ethernet"

\* a DHCP datagram has been decoded
C21_Witness ==
    /\ Decoded
    /\ DecodedChain = <<"Ethernet", "IPv4", "UDP", "DHCP">>
    /\ Parsed.protocol = "Unknown"

----------------------------------------------------------------------------
\* C22: when process() traverses no recognized layer (the frame has no
\* layer, or only generic-payload, unknown or trailer layers), the protocol
\* label it returns is "Unknown".
C22_NoRecognizedLayerIsUnknown ==
    (Decoded /\ \A i \in 1..Len(DecodedChain) :
                    ~UpdatesProtocol(DecodedChain[i])) =>
        Parsed.protocol = "Unknown"

\* a frame too short for its link layer has been decoded
C22_Witness ==
    /\ Decoded
    /\ DecodedChain = <<"GenericPayload">>
    /\ Parsed.protocol = ""

----------------------------------------------------------------------------
----------------------------------------------------------------------------
\* the step in which caller u runs packetCapture_->start, from start() or
\* from restart()
CaptureStartBy(u) ==
    \/ StartCallBy(u) /\ ~isRunning_
    \/ pc[u] = "rs_startcap" /\ pc'[u] /= "rs_startcap"

\* that call returned true
CaptureStarted(u) == pc'[u] \in {"start_spawn", "rs_spawn"}

\* C24: PacketCapture::start returns false and leaves the capture as it was
\* (running flag, held device, registered callback) when the callback is
\* unset, a capture is already active, the device is unknown, the device
\* cannot be opened or the capture refuses to start; it returns true and
\* sets the running flag only when none of these occurs.
C24_FailedCaptureStartChangesNothing ==
    /\ [](\A d \in Devices \cup {UnknownDevice}, oc \in Outcomes,
             cb \in {"unset", "push"} :
             (cb = "unset" \/ capture_isRunning_) =>
                 PacketCapture_start(d, cb, oc) =
                     [ok |-> FALSE, running |-> capture_isRunning_,
                      device |-> device_, callback |-> callback_])
    /\ [][\A u \in MainCaller :
            CaptureStartBy(u) =>
                IF CaptureStarted(u)
                THEN /\ ~capture_isRunning_ /\ capture_isRunning_'
                     /\ device_' \in Devices
                     /\ callback_' = "push"
                ELSE /\ retval'[u] = "false"
                     /\ UNCHANGED <<capture_isRunning_, device_, callback_>>
         ]_vars

\* a start() whose capture refused to start has returned false and the
\* capture holds the device and the callback of that call
C24_Witness ==
    /\ \E u \in MainCaller :
          pc[u] = "idle" /\ op[u] = "start" /\ retval[u] = "false"
    /\ ~capture_isRunning_
    /\ ~isRunning_
    /\ device_ \in Devices
    /\ callback_ = "push"
    /\ ~everStarted

----------------------------------------------------------------------------
\* The dispatcher under a failing allocation

\* catch (...) around the dispatcher's loop: tasks_.push(std::function(task))
\* threw inside submit(), the frame in hand is gone and the thread function
\* returns with the loop abandoned
Dispatcher_Catch ==
    /\ pc[D] = "sub_push"
    /\ Goto(D, "d_done")
    /\ local' = [local EXCEPT ![D] = NoItem]
    /\ UNCHANGED <<ret, result, callVars, ctlVars, rawPacketQueue_, poolVars,
                   capVars, storeVars, histVars, uiVars>>

NextFault == ControllerSteps(MainCaller) \/ Dispatcher_Catch

FaultSpec == Init /\ [][NextFault]_vars

\* the step in which the dispatcherThread_.join() of caller u returns
JoinReturnsFor(u) == pc[u] \in {"stop_join", "rs_join"} /\ pc'[u] = "sd_xchg"

\* how many times frame n was passed to submit() by the dispatcher
TimesDispatched(n) ==
    Cardinality({i \in 1..Len(dispatched) : dispatched[i] = n})

\* C25: when dispatcherThread_.join() returns in stop() or in restart()'s
\* stop phase, rawPacketQueue_ is empty and every frame pushed before the
\* sentinel has been passed to the pool's submit() exactly once, also in a
\* run in which an exception surfaced inside the dispatcher's loop.
C25_JoinMeansDrained ==
    [][\A u \in MainCaller :
          JoinReturnsFor(u) =>
              /\ rawPacketQueue_' = <<>>
              /\ \A n \in 1..capturedPacketCount_ : TimesDispatched(n) = 1
      ]_vars

\* stop() has come back from join() after the dispatcher left its loop
\* through the catch block: a frame and the sentinel are still queued
C25_Witness ==
    /\ \E u \in MainCaller : pc[u] = "sd_xchg" /\ ret[u] = "stop_flag"
    /\ pc[D] = "d_none"
    /\ Len(rawPacketQueue_) = 2
    /\ rawPacketQueue_[1].some
    /\ ~rawPacketQueue_[2].some
    /\ dispatched = <<1>>
    /\ TimesDispatched(rawPacketQueue_[1].n) = 0
    /\ tasks_ = <<>>
    /\ invoked = {}

----------------------------------------------------------------------------
\* the dispatcher thread exists and has not left its loop
DispatcherAlive == pc[D] \notin {"d_none", "d_done"}

\* C26: whenever the pipeline is Running (isRunning_ set and no lifecycle
\* call in progress), and whenever the dispatcher is in its loop, the worker
\* pool is accepting, after any sequence of start(), stop() and restart()
\* calls, failed ones included; so every frame the dispatcher passed to
\* submit() was accepted and none was dropped.
C26_RunningPoolAccepts ==
    /\ (isRunning_ /\ controlMutex_ = NoThread) => ~stopped_
    /\ DispatcherAlive => ~stopped_
    /\ \A i \in 1..Len(dispatched) : dispatched[i] \in accepted

\* Running again after a stop(): the pool is a new one and has accepted a
\* frame of the new run
C26_Witness ==
    /\ isRunning_
    /\ controlMutex_ = NoThread
    /\ threadPool_ = 2
    /\ ~stopped_
    /\ \E u \in MainCaller : op[u] = "start" /\ retval[u] = "true"
    /\ dispatched = <<1>>
    /\ accepted = {1}

----------------------------------------------------------------------------
\* the frames in a queue, oldest first, by their arrival number
FramesIn(q) ==
    LET f == SelectSeq(q, LAMBDA x : x.some)
    IN  [i \in 1..Len(f) |-> f[i].n]

\* the frame the dispatcher has popped and not yet passed to submit()
InHand == IF pc[D] = "sub_check" THEN <<local[D].n>> ELSE <<>>

\* the frames the capture callback pushed, in the order it pushed them
Pushed == [i \in 1..capturedPacketCount_ |-> i]

----------------------------------------------------------------------------
\* ThreadSafeQueue<T> step by step: mutex_, cv_ and queue_ under concurrent
\* push(), pop() and tryPop().  The queue is rawPacketQueue_; producers are
\* the client threads and consumers the caller threads.

\* push() calls made on the queue
MaxPushes == 3

Producers == Clients
Consumers == Callers

\* the places where a thread holds mutex_
HoldsQueueMutex ==
    {"qpush_put", "qpop_test", "qtry_test", "q_front", "q_pop"}

\* a mutex_ that never makes a thread wait
QueueMutexFree_Always == TRUE

\* std::mutex mutex_: free when no thread is inside a locked region
QueueMutexFree == \A t \in Threads : pc[t] \notin HoldsQueueMutex

\* the threads blocked in cv_.wait()
Waiting == {t \in Threads : pc[t] = "qpop_wait"}

\* what result[t] holds after a pop() or tryPop()
Returned(v) == [kind |-> IF v.some THEN "value" ELSE "nullopt",
                val |-> v.n, pkts |-> <<>>]

\* queue_.front(): on an empty std::queue the behaviour is undefined and
\* any element ever pushed, or none, may come back
front(q) ==
    IF q /= <<>> THEN {Head(q)}
    ELSE {Some([n |-> k, bad |-> FALSE]) : k \in 0..nPushed}

\* queue_.pop()
pop_front(q) == IF q /= <<>> THEN Tail(q) ELSE q

QueueUnchanged ==
    UNCHANGED <<ret, arg, retval, script, nCalls, ctlVars, poolVars, capVars,
                storeVars, nSubmitted, accepted, uiVars, dispatched, queuedBefore,
                invoked, threw, delivered, noteVars>>

\* a producer calls push(value)
QPush_Begin(t) ==
    /\ pc[t] = "idle"
    /\ nPushed < MaxPushes
    /\ nPushed' = nPushed + 1
    /\ local' = [local EXCEPT ![t] =
                    [n |-> nPushed + 1, bad |-> FALSE, id |-> 0]]
    /\ op' = [op EXCEPT ![t] = "push"]
    /\ Goto(t, "qpush_lock")
    /\ UNCHANGED <<result, rawPacketQueue_, popped>>
    /\ QueueUnchanged

\* std::lock_guard<std::mutex> lock(mutex_)
QPush_Lock(t) ==
    /\ pc[t] = "qpush_lock"
    /\ QueueMutexFree
    /\ Goto(t, "qpush_put")
    /\ UNCHANGED <<local, result, op, rawPacketQueue_, nPushed, popped>>
    /\ QueueUnchanged

\* queue_.push(std::move(value)); the lock_guard's scope ends
QPush_Put(t) ==
    /\ pc[t] = "qpush_put"
    /\ rawPacketQueue_' = Append(rawPacketQueue_, Some(local[t]))
    /\ Goto(t, "qpush_notify")
    /\ UNCHANGED <<local, result, op, nPushed, popped>>
    /\ QueueUnchanged

\* cv_.notify_one(): one of the threads blocked in wait(), if there is one,
\* is unblocked; push() returns
QPush_Notify(t) ==
    /\ pc[t] = "qpush_notify"
    /\ IF Waiting = {}
       THEN Goto(t, "idle")
       ELSE \E w \in Waiting :
               pc' = [pc EXCEPT ![t] = "idle", ![w] = "qpop_woken"]
    /\ local' = [local EXCEPT ![t] = NoItem]
    /\ UNCHANGED <<result, op, rawPacketQueue_, nPushed, popped>>
    /\ QueueUnchanged

\* a consumer calls pop() or tryPop()
QPop_Begin(t, name) ==
    /\ pc[t] = "idle"
    /\ op' = [op EXCEPT ![t] = name]
    /\ result' = [result EXCEPT ![t] = NoResult]
    /\ Goto(t, IF name = "pop" THEN "qpop_lock" ELSE "qtry_lock")
    /\ UNCHANGED <<local, rawPacketQueue_, nPushed, popped>>
    /\ QueueUnchanged

\* std::unique_lock<std::mutex> lock(mutex_), and wait() taking the lock
\* again once it is unblocked
QPop_Lock(t) ==
    /\ pc[t] \in {"qpop_lock", "qpop_woken"}
    /\ QueueMutexFree
    /\ Goto(t, "qpop_test")
    /\ UNCHANGED <<local, result, op, rawPacketQueue_, nPushed, popped>>
    /\ QueueUnchanged

\* a wait() that blocks without looking at the queue first
MustWait_Unconditional(q) == TRUE

\* cv_.wait(lock, [this] { return !queue_.empty(); }): while (!pred())
MustWait(q) == q = <<>>

\* wait(): the predicate is evaluated under the lock; if it fails the lock
\* is released and the thread blocks, in one step
QPop_Test(t) ==
    /\ pc[t] = "qpop_test"
    /\ Goto(t, IF MustWait(rawPacketQueue_) THEN "qpop_wait" ELSE "q_front")
    /\ UNCHANGED <<local, result, op, rawPacketQueue_, nPushed, popped>>
    /\ QueueUnchanged

\* wait() may be unblocked spuriously
QPop_Spurious(t) ==
    /\ pc[t] = "qpop_wait"
    /\ Goto(t, "qpop_woken")
    /\ UNCHANGED <<local, result, op, rawPacketQueue_, nPushed, popped>>
    /\ QueueUnchanged

\* tryPop(): std::lock_guard<std::mutex> lock(mutex_)
QTry_Lock(t) ==
    /\ pc[t] = "qtry_lock"
    /\ QueueMutexFree
    /\ Goto(t, "qtry_test")
    /\ UNCHANGED <<local, result, op, rawPacketQueue_, nPushed, popped>>
    /\ QueueUnchanged

\* tryPop(): if (queue_.empty()) return std::nullopt
QTry_Test(t) ==
    /\ pc[t] = "qtry_test"
    /\ IF rawPacketQueue_ = <<>>
       THEN /\ Goto(t, "idle")
            /\ result' = [result EXCEPT ![t] = Returned(Nullopt)]
       ELSE /\ Goto(t, "q_front")
            /\ UNCHANGED result
    /\ UNCHANGED <<local, op, rawPacketQueue_, nPushed, popped>>
    /\ QueueUnchanged

\* T value = std::move(queue_.front())
Q_Front(t) ==
    /\ pc[t] = "q_front"
    /\ \E v \in front(rawPacketQueue_) :
          local' = [local EXCEPT ![t] = [n |-> v.n, bad |-> v.bad, id |-> 0]]
    /\ Goto(t, "q_pop")
    /\ UNCHANGED <<result, op, rawPacketQueue_, nPushed, popped>>
    /\ QueueUnchanged

\* queue_.pop(); return value
Q_Pop(t) ==
    /\ pc[t] = "q_pop"
    /\ rawPacketQueue_' = pop_front(rawPacketQueue_)
    /\ popped' = Append(popped, [by |-> t, n |-> local[t].n])
    /\ result' = [result EXCEPT ![t] = Returned(Some(local[t]))]
    /\ local' = [local EXCEPT ![t] = NoItem]
    /\ Goto(t, "idle")
    /\ UNCHANGED <<op, nPushed>>
    /\ QueueUnchanged

ProducerSteps(t) ==
    QPush_Lock(t) \/ QPush_Put(t) \/ QPush_Notify(t)

ConsumerSteps(t) ==
    \/ QPop_Lock(t)
    \/ QPop_Test(t)
    \/ QTry_Lock(t)
    \/ QTry_Test(t)
    \/ Q_Front(t)
    \/ Q_Pop(t)

NextQueue ==
    \/ \E t \in Producers : QPush_Begin(t)
    \/ \E t \in Producers : ProducerSteps(t)
    \/ \E t \in Consumers : \E name \in {"pop", "tryPop"} : QPop_Begin(t, name)
    \/ \E t \in Consumers : ConsumerSteps(t)
    \/ \E t \in Consumers : QPop_Spurious(t)

QueueSpec == Init /\ [][NextQueue]_vars

\* the numbers of the elements returned so far
PoppedNumbers == {popped[i].n : i \in 1..Len(popped)}

\* the step in which consumer t returns an element
ReturnsElement(t) == pc[t] = "q_pop" /\ pc'[t] = "idle"

----------------------------------------------------------------------------
\* C28: with any producers and consumers running together, pop() returns
\* only when the queue holds an element and returns the oldest one; every
\* pushed element is returned by at most one pop() or tryPop(); tryPop()
\* returns nullopt exactly when the queue is empty while it holds the lock.
C28_QueueSafety ==
    /\ [](\A i, j \in 1..Len(popped) :
             /\ popped[i].n \in 1..nPushed
             /\ popped[i].n = popped[j].n => i = j)
    /\ [][\A t \in Consumers :
            ReturnsElement(t) =>
                /\ rawPacketQueue_ /= <<>>
                /\ result'[t] = Returned(Head(rawPacketQueue_))
                /\ rawPacketQueue_' = Tail(rawPacketQueue_)
         ]_vars
    /\ [][\A t \in Consumers :
            (pc[t] = "qtry_test" /\ pc'[t] /= "qtry_test") =>
                /\ (pc'[t] = "idle" /\ result'[t] = Returned(Nullopt))
                       <=> rawPacketQueue_ = <<>>
                /\ \A o \in Threads \ {t} : pc[o] \notin HoldsQueueMutex
         ]_vars

\* two consumers each got one of two queued elements, one through pop() and
\* one through tryPop(), while a third element is still queued
C28_Witness ==
    /\ Len(popped) = 2
    /\ popped[1].by /= popped[2].by
    /\ \E a, b \in Consumers :
          /\ op[a] = "pop" /\ op[b] = "tryPop"
          /\ pc[a] = "idle" /\ pc[b] = "idle"
          /\ result[a].kind = "value" /\ result[b].kind = "value"
    /\ Len(rawPacketQueue_) = 1

----------------------------------------------------------------------------
\* The queue under a fair scheduler

\* push() calls made when progress is checked
MaxLivePushes == 2

NextQueueLive ==
    \/ \E t \in Producers : nPushed < MaxLivePushes /\ QPush_Begin(t)
    \/ \E t \in Producers : ProducerSteps(t)
    \/ \E t \in Consumers : \E name \in {"pop", "tryPop"} : QPop_Begin(t, name)
    \/ \E t \in Consumers : ConsumerSteps(t)
    \/ \E t \in Consumers : QPop_Spurious(t)

\* A thread inside push(), pop() or tryPop() keeps being scheduled and gets
\* mutex_ if it is free again and again; nothing makes a thread start a
\* call, and no wait() is promised a spurious wakeup.
QueueLiveSpec ==
    /\ Init
    /\ [][NextQueueLive]_vars
    /\ \A t \in Producers : SF_vars(ProducerSteps(t))
    /\ \A t \in Consumers : SF_vars(ConsumerSteps(t))

\* an element is queued while a consumer is blocked in wait()
QueuedWhileBlocked == rawPacketQueue_ /= <<>> /\ Waiting /= {}

\* the consumers that returned an element after the first k returns
ReturnedAfter(k) == {popped[i].by : i \in (k + 1)..Len(popped)}

\* the step in which push() notifies
NotifiesBy(t) == pc[t] = "qpush_notify" /\ pc'[t] = "idle"

----------------------------------------------------------------------------
\* The pool under a fair scheduler

\* Every worker thread that can take a step is scheduled in the end, and so
\* is a client inside submit() or shutdown(); a task is one step of its
\* worker followed by the store's addPacket, so it terminates.  Nothing
\* makes a client start a call.
PoolLiveSpec ==
    /\ Init
    /\ [][NextPool]_vars
    /\ \A w \in Workers : WF_vars(WorkerSteps(w))
    /\ \A c \in Clients :
          WF_vars(ShutdownSteps({c}) \/ Submit_Check(c) \/ Submit_Push(c))

\* the sentinels still in the task queue
SentinelsQueued == Len(SelectSeq(tasks_, LAMBDA x : x.empty))

\* C30: a pool asked for n workers has max(n, 1) of them; once a first
\* shutdown() has set stopped_, with every thread scheduled and every task
\* terminating, each worker takes one sentinel and exits, never to pop
\* again, and the shutdown() that pushed the sentinels returns; when it
\* returns every worker has exited and is joined, and no sentinel is left.
C30_ShutdownTerminates ==
    /\ [](/\ WorkerCount(0) = 1
          /\ \A n \in 1..(kWorkerCount + 1) : WorkerCount(n) = n
          /\ Cardinality(Workers) = WorkerCount(kWorkerCount))
    /\ stopped_ ~> ShutdownReturned
    /\ [](ShutdownReturned =>
              sentinels = Cardinality(Workers) /\ SentinelsQueued = 0)
    /\ [][\A w \in Workers :
            /\ (pc[w] = "w_pop" /\ pc'[w] = "w_exited") =>
                   /\ Head(tasks_).empty
                   /\ tasks_' = Tail(tasks_)
            /\ pc[w] = "w_exited" => pc'[w] \in {"w_exited", "w_joined"}
         ]_vars
    /\ [][\A t \in Clients :
            (pc[t] = "sd_join" /\ pc'[t] /= "sd_join") =>
                /\ \A w \in Workers : pc[w] = "w_exited" /\ pc'[w] = "w_joined"
                /\ pc'[t] = "idle"
         ]_vars

\* shutdown() has returned on a pool that ran two tasks, one of which threw
C30_Witness ==
    /\ ShutdownReturned
    /\ \E c \in Clients : pc[c] = "idle" /\ op[c] = "shutdown"
    /\ Cardinality(invoked) = 2
    /\ Cardinality(threw) = 1
    /\ sentinels = Cardinality(Workers)
    /\ SentinelsQueued = 0

----------------------------------------------------------------------------
\* The decode task: process() and then addPacket()

\* a caller of addPacket() other than the decode task
Adder == <<"c", 1>>

\* packetStore_->addPacket(std::move(parsedPacket)), with the record that
\* process() returned
Task_Add(w) ==
    /\ pc[w] = "process_done"
    /\ local' = [local EXCEPT ![w] =
                    [n |-> 0, bad |-> FALSE, id |-> local[w].result.id]]
    /\ Call(w, "add_lock", "task_done")
    /\ UNCHANGED <<result, callVars, ctlVars, rawPacketQueue_, poolVars,
                   capVars, storeVars, histVars, uiVars>>

\* addPacket() of a record that carries an ID already; the record is tagged
\* with the ID it came with
Task_OtherAdd(c) == \E id \in IncomingIds : Client_Store(c, "add_lock", id, id)

NextTask ==
    \/ NextDecode
    \/ Task_Add(Decoder)
    \/ Task_OtherAdd(Adder)
    \/ AddSteps({Decoder, Adder})

TaskSpec == DecodeInit /\ [][NextTask]_vars

\* C31: record IDs are assigned exclusively by the store: process() returns
\* a record whose ID is unset (0) and whose bytes equal the bytes of the
\* frame it was given, and addPacket() overwrites whatever ID the incoming
\* record carries with the next sequential ID.
C31_StoreAssignsIds ==
    /\ Decoded => /\ Parsed.id = 0
                  /\ Parsed.rawData = local[Decoder].raw
    /\ \A t \in {Decoder, Adder} :
          pc[t] = "add_push" =>
              /\ local[t].id = id_
              /\ local[t].id = Len(parsedPackets_) + 1
    /\ \A i \in 1..Len(parsedPackets_) : parsedPackets_[i].id = i

\* the store holds the record of the decode task and, behind it, a record
\* that came with ID 7 and is stored with ID 2
C31_Witness ==
    /\ Len(parsedPackets_) = 2
    /\ parsedPackets_[1] = [id |-> 1, n |-> 0]
    /\ parsedPackets_[2] = [id |-> 2, n |-> 7]
    /\ pc[Decoder] = "task_done"

----------------------------------------------------------------------------
\* C32: the device remembered for restart() is the device of the most
\* recent successful start(): a start() that fails or is rejected because
\* the pipeline is running never changes it, restart() never changes it,
\* nor does any other step, and an active capture is on that device.
C32_RememberedDevice ==
    /\ [][\A u \in MainCaller :
            IF StartCallBy(u)
            THEN currentDeviceName_' =
                     IF CaptureStarted(u) THEN arg'[u] ELSE currentDeviceName_
            ELSE UNCHANGED currentDeviceName_
         ]_vars
    /\ [](capture_isRunning_ => device_ = currentDeviceName_)

\* a start() from Stopped with another valid device has failed after an
\* earlier start() succeeded, and the remembered device is the earlier one
C32_Witness ==
    \E u \in MainCaller :
        /\ pc[u] = "idle" /\ op[u] = "start" /\ retval[u] = "false"
        /\ everStarted /\ ~isRunning_
        /\ arg[u] \in Devices
        /\ currentDeviceName_ \in Devices \ {arg[u]}

----------------------------------------------------------------------------
\* a stop() or restart() is waiting in dispatcherThread_.join() behind the
\* sentinel it pushed
StopSequenceJoining == \E u \in Callers : pc[u] \in {"stop_join", "rs_join"}

\* the step in which the dispatcher's thread function returns
DispatcherExits == DispatcherAlive /\ ~DispatcherAlive'

\* C33: while the pipeline is Running and no stop() or restart() is in
\* progress its dispatcher thread is alive and consuming the ingest queue:
\* the dispatcher terminates only by popping a sentinel pushed by the stop
\* sequence of the current run, never because of an exception in the loop
\* or a sentinel left over from an earlier run.
C33_DispatcherLivesWhileRunning ==
    /\ []((isRunning_ /\ controlMutex_ = NoThread) => DispatcherAlive)
    /\ [][DispatcherExits =>
            /\ pc[D] = "d_pop"
            /\ rawPacketQueue_ /= <<>> /\ ~Head(rawPacketQueue_).some
            /\ StopSequenceJoining
         ]_vars

\* a second start() has returned true and its dispatcher is gone although
\* no frame arrived in this run: it popped the sentinel that the stop() of
\* the first run had pushed after that run's dispatcher had ended in the
\* catch block
C33_Witness ==
    /\ \E u \in MainCaller :
          pc[u] = "idle" /\ op[u] = "start" /\ retval[u] = "true"
    /\ nCalls = 3
    /\ isRunning_ /\ controlMutex_ = NoThread
    /\ pc[D] = "d_done"
    /\ capturedPacketCount_ = 1
    /\ dispatched = <<1>>
    /\ rawPacketQueue_ = <<>>

----------------------------------------------------------------------------
\* The pool with a client that passes any callable

\* submit(f) where f holds no target
Client_SubmitEmpty(c) ==
    /\ pc[c] = "idle"
    /\ nSubmitted < MaxTasks
    /\ nSubmitted' = nSubmitted + 1
    /\ local' = [local EXCEPT ![c] = NullCallable]
    /\ op' = [op EXCEPT ![c] = "submit"]
    /\ Call(c, "sub_check", "idle")
    /\ UNCHANGED <<result, arg, retval, script, nCalls, ctlVars,
                   rawPacketQueue_, poolVars, capVars, storeVars, accepted, uiVars,
                   dispatched, nPushed, popped,
                   queuedBefore, invoked, threw, delivered, noteVars>>

NextCallable ==
    \/ NextPool
    \/ \E c \in Clients : Client_SubmitEmpty(c)

CallableSpec == Init /\ [][NextCallable]_vars

\* C34: a worker thread exits only by consuming one of the sentinels
\* enqueued by shutdown(): no value passed to submit() before shutdown,
\* including an empty callable, makes a worker exit, so the number of live
\* workers stays K until shutdown() is called.
C34_WorkersLiveUntilShutdown ==
    ~stopped_ => \A w \in Workers : WorkerAlive(w)

\* shutdown() has not been called and every worker has left its loop on a
\* callable submitted without a target
C34_Witness ==
    /\ ~stopped_
    /\ \A w \in Workers : pc[w] = "w_exited"
    /\ \A c \in Clients : pc[c] = "idle" /\ op[c] = "submit"
    /\ tasks_ = <<>>

----------------------------------------------------------------------------
\* C35: the delivered-frame counter never decreases while a capture is
\* active, and in every reachable state processedCount() is at most
\* capturedCount(), across any sequence of start, stop and restart.
C35_ProcessedAtMostCaptured ==
    /\ [][capture_isRunning_ => capturedCount' >= capturedCount]_vars
    /\ [](processedCount <= capturedCount)

\* after a restart() that emptied the store, the frame delivered in the new
\* run is stored: one record, two frames counted
C35_Witness ==
    /\ \E u \in MainCaller :
          pc[u] = "idle" /\ op[u] = "restart" /\ retval[u] = "true"
    /\ processedCount = 1
    /\ capturedCount = 2
    /\ capture_isRunning_

----------------------------------------------------------------------------
\* C36: in every reachable state the ingest queue holds at most one
\* sentinel, and when it holds one it is the last element; after stop() has
\* returned, and whenever the pipeline is Stopped with no lifecycle call in
\* progress, the queue holds no sentinel.
C36_OneSentinelAtTheEnd ==
    /\ Pills(rawPacketQueue_) <= 1
    /\ Pills(rawPacketQueue_) = 1 =>
           IsPill(rawPacketQueue_[Len(rawPacketQueue_)])
    /\ (~isRunning_ /\ controlMutex_ = NoThread) =>
           Pills(rawPacketQueue_) = 0

\* in the run after a stop() whose sentinel was never popped, the capture
\* has pushed a frame behind that sentinel
C36_Witness ==
    /\ Len(rawPacketQueue_) = 2
    /\ IsPill(rawPacketQueue_[1])
    /\ ~IsPill(rawPacketQueue_[2])
    /\ capture_isRunning_
    /\ nCalls = 3

----------------------------------------------------------------------------
\* a stop() that ran its sequence has returned and no start() or restart()
\* has been called since: the pool is the one stop() shut down
StoppedSinceStop == ~isRunning_ /\ stopped_ /\ controlMutex_ = NoThread

\* no dispatcher thread, no worker thread, no task queued or in a worker's
\* hands, no capture
Quiescent ==
    /\ pc[D] = "d_none"
    /\ \A w \in Workers : pc[w] = "w_joined"
    /\ tasks_ = <<>>
    /\ \A t \in Workers \cup {D} : local[t] = NoItem
    /\ mutexOwner \notin Workers
    /\ ~capture_isRunning_

\* C37: once stop() has returned, no dispatcher thread and no worker thread
\* of the pipeline is running and no decode task is pending, so the store
\* contents and processedCount() stay unchanged until the next start() or
\* restart().
C37_QuiescentAfterStop ==
    /\ [](\A u \in MainCaller :
             (StopReturned(u) /\ ~idleStop) => StoppedSinceStop)
    /\ [](StoppedSinceStop => Quiescent)
    /\ [][(StoppedSinceStop /\ StoppedSinceStop') =>
             /\ UNCHANGED <<parsedPackets_, id_>>
             /\ processedCount' = processedCount
         ]_vars
    /\ [][(StoppedSinceStop /\ ~StoppedSinceStop') =>
             \E u \in Callers : op'[u] \in {"start", "restart"} /\ pc[u] = "idle"
         ]_vars

\* stop() has returned after two frames were decoded and stored, and a
\* second stop() has found the pipeline Stopped
C37_Witness ==
    /\ \E u \in MainCaller : StopReturned(u) /\ idleStop
    /\ StoppedSinceStop
    /\ Len(parsedPackets_) = 2
    /\ nCalls = 3

----------------------------------------------------------------------------
\* the step in which a lifecycle call of u returns
ReturnsTo(u) == pc'[u] = "idle" /\ (pc[u] /= "idle" \/ nCalls' /= nCalls)

\* C38: the boolean returned by start() from Stopped and by restart()
\* equals the pipeline state afterwards: the call returns true exactly when
\* isRunning() is true on return with a live dispatcher and an active
\* capture, and returns false exactly when the pipeline is Stopped on
\* return with no dispatcher thread and no active capture.
C38_ReturnValueIsState ==
    [][\A u \in MainCaller :
          (/\ ReturnsTo(u)
           /\ op'[u] \in {"start", "restart"}
           /\ ~(StartCallBy(u) /\ isRunning_)) =>
              IF retval'[u] = "true"
              THEN /\ isRunning'
                   /\ DispatcherAlive'
                   /\ capture_isRunning_'
              ELSE /\ retval'[u] = "false"
                   /\ ~isRunning'
                   /\ pc'[D] = "d_none"
                   /\ ~capture_isRunning_'
      ]_vars

\* a second start() has just returned true, the capture is active, and the
\* dispatcher it created has already left its loop on the sentinel of the
\* first run
C38_Witness ==
    /\ \E u \in MainCaller :
          pc[u] = "idle" /\ op[u] = "start" /\ retval[u] = "true"
    /\ nCalls = 3
    /\ isRunning_ /\ capture_isRunning_
    /\ pc[D] = "d_done"
    /\ capturedPacketCount_ = 1
    /\ rawPacketQueue_ = <<>>
    /\ tasks_ = <<>>

----------------------------------------------------------------------------
\* The main window and the packet table's model

\* the UI thread, on which every handler and the timer's slot run
Ui == <<"u", 1>>

\* updateButtonStates()
updateButtonStates(w) ==
    [w EXCEPT !.startAction_ = ~isRunning /\ w.hasDevice_,
              !.stopAction_ = isRunning,
              !.restartAction_ = w.hasDevice_]

\* PacketListModel::refresh(): rows are only ever inserted
refresh(rows) == IF count > rows THEN count ELSE rows

\* PacketListModel::reset()
reset == 0

\* what the user can trigger: a device of the list on the welcome screen, an
\* enabled action of the toolbar on the capture screen
CanTrigger(h) ==
    CASE h = "onDeviceDoubleClicked" -> window.screen = "welcome"
      [] h = "onStartCapture" ->
             window.screen = "capture" /\ window.startAction_
      [] h = "onStopCapture" ->
             window.screen = "capture" /\ window.stopAction_
      [] h = "onRestartCapture" ->
             window.screen = "capture" /\ window.restartAction_

UiIdle == pc[Ui] = "idle" /\ window.handler = "none"

\* a handler is entered, up to its call of the controller
Ui_Enter(h, d) ==
    /\ UiIdle
    /\ nCalls < MaxCalls
    /\ CanTrigger(h)
    /\ window' = [window EXCEPT !.handler = h, !.at = nCalls,
                                !.currentDeviceName_ = d]
    /\ updateTimer_' = IF h = "onStopCapture" THEN FALSE ELSE updateTimer_
    /\ UNCHANGED <<pc, ret, local, result, callVars, ctlVars,
                   rawPacketQueue_, poolVars, capVars, storeVars, histVars,
                   cachedRowCount_>>

\* currentDeviceName_ = item->data(Qt::UserRole).toString()
OnDeviceDoubleClicked ==
    \E d \in Devices : Ui_Enter("onDeviceDoubleClicked", d)

OnStartCapture == Ui_Enter("onStartCapture", window.currentDeviceName_)

\* updateTimer_->stop() comes before controller_.stop()
OnStopCapture == Ui_Enter("onStopCapture", window.currentDeviceName_)

OnRestartCapture == Ui_Enter("onRestartCapture", window.currentDeviceName_)

\* the handler's call has not begun
BeforeCall == window.handler /= "none" /\ nCalls = window.at

\* controller_.start(currentDeviceName_.toStdString())
Ui_Start ==
    /\ BeforeCall
    /\ window.handler \in {"onDeviceDoubleClicked", "onStartCapture"}
    /\ \E oc \in Outcomes : Start(Ui, window.currentDeviceName_, oc)

\* controller_.stop()
Ui_Stop == BeforeCall /\ window.handler = "onStopCapture" /\ Stop_Enter(Ui)

\* controller_.restart()
Ui_Restart ==
    BeforeCall /\ window.handler = "onRestartCapture" /\ Restart_Enter(Ui)

\* the rest of the handler once the controller's call has returned; when
\* start() or restart() returned false only a message box is shown
Ui_Return ==
    /\ window.handler /= "none"
    /\ nCalls = window.at + 1
    /\ pc[Ui] = "idle"
    /\ LET h == window.handler
           ok == retval[Ui] = "true"
           w == [window EXCEPT !.handler = "none"]
       IN  /\ window' =
                 IF h = "onDeviceDoubleClicked" /\ ok
                 THEN updateButtonStates(
                          [w EXCEPT !.hasDevice_ = TRUE, !.screen = "capture"])
                 ELSE IF h = "onStopCapture" \/ ok
                 THEN updateButtonStates(w)
                 ELSE w
           /\ updateTimer_' = IF h /= "onStopCapture" /\ ok THEN TRUE
                              ELSE updateTimer_
           /\ cachedRowCount_' = IF h = "onRestartCapture" /\ ok THEN reset
                                 ELSE cachedRowCount_
    /\ UNCHANGED <<pc, ret, local, result, callVars, ctlVars,
                   rawPacketQueue_, poolVars, capVars, storeVars, histVars>>

\* the timer's slot: packetListModel_->refresh(), whose store_->count()
\* takes the store's lock shared
OnUpdateUI ==
    /\ UiIdle
    /\ updateTimer_
    /\ CanLockShared
    /\ cachedRowCount_' = refresh(cachedRowCount_)
    /\ UNCHANGED <<pc, ret, local, result, callVars, ctlVars,
                   rawPacketQueue_, poolVars, capVars, storeVars, histVars,
                   updateTimer_, window>>

NextUi ==
    \/ OnDeviceDoubleClicked
    \/ OnStartCapture
    \/ OnStopCapture
    \/ OnRestartCapture
    \/ Ui_Start
    \/ Ui_Stop
    \/ Ui_Restart
    \/ Ui_Return
    \/ OnUpdateUI
    \/ BodySteps(Ui)
    \/ Dispatcher_Pop
    \/ PoolSteps({D})
    \/ AddSteps(Workers)
    \/ \E bad \in BOOLEAN : OnPacketArrives(bad)

UiSpec == Init /\ [][NextUi]_vars

\* C39: the packet table model never shows more rows than the store holds:
\* after every UI handler (timer refresh, Start, Stop, Restart, whether the
\* controller call succeeded or failed) has run to completion, the cached
\* row count of PacketListModel is at most PacketStore.count().
C39_RowsAtMostStored == UiIdle => cachedRowCount_ <= count

\* the Restart handler has finished after restart() returned false: the
\* store was emptied and the table still shows a row
C39_Witness ==
    /\ UiIdle
    /\ op[Ui] = "restart" /\ retval[Ui] = "false"
    /\ cachedRowCount_ >= 1
    /\ count = 0
    /\ ~isRunning_

\* C40: after the Stop action has completed the packet table shows every
\* stored packet: the model's row count equals PacketStore.count(),
\* including the records inserted while stop() was draining the queue and
\* the pool.
C40_StopShowsEveryPacket ==
    (UiIdle /\ op[Ui] = "stop") => cachedRowCount_ = count

\* the Stop handler has finished, the store holds a record that was added
\* after the last refresh, and the table does not show it
C40_Witness ==
    /\ UiIdle
    /\ op[Ui] = "stop"
    /\ ~updateTimer_
    /\ ~isRunning_
    /\ count >= 1
    /\ cachedRowCount_ < count

====
